---------------------------- MODULE Spec2Model ----------------------------
(***************************************************************************)
(* State-machine model of two pieces of the repository:                    *)
(*   - evalengine: CollateExpr and IntroducerExpr, interpreted (eval) and  *)
(*     compiled (compile, then the emitted code run by the VM);            *)
(*   - schema.Tracker: the goroutine that records schema versions;         *)
(*   - sqlparser: the entry points of parser.go over a tokenizer, and the   *)
(*     pool of parser objects;                                              *)
(*   - collations: the merge of two typed collations.                      *)
(* Specification Spec drives the evalengine part, SpecTracker the tracker, *)
(* SpecReload the function MustReloadSchemaOnDDL, SpecParser the entry     *)
(* points of the parser on one input, SpecPool concurrent yyParsePooled,   *)
(* SpecVersion the function ConvertMySQLVersionToCommentVersion, SpecMerge *)
(* the collation merge, SpecEnable concurrent calls of Tracker.Enable.     *)
(***************************************************************************)
EXTENDS Integers, Sequences, FiniteSets, TLC

VARIABLES
    node,      \* the expression node: kind, TypedCollation, CollationEnv
    ctInner,   \* compile-time type of node.Inner (what Inner.compile returns)
    inner,     \* the value node.Inner evaluates to on the current row
    pc,        \* position of the evalengine driver
    evalOut,   \* outcome of node.eval(env)
    evalCount, \* how many times node.eval has run on this row
    nestOut,   \* outcome of CollateExpr{Inner: node}.eval(env), same target
    compOut,   \* outcome of node.compile(c): error, ctype, emitted code
    vm,        \* the VM running the emitted code: ip, stack, state, and
               \* ran, the instructions it has executed
    tr,        \* the Tracker: enabled, mu, cancel, wg, ctx
    proc,      \* the process goroutine: position, its local gtid, base (the
               \* rows of the table that no stream event inserted), and what
               \* possiblyInsertInitialSchema met and did in this goroutine
    table,     \* rows of the schema_version table, in insertion order
    delivered, \* events handed to the send callback so far, in order, with
               \* a START mark where a new process goroutine began
    saved,     \* for each delivered event, whether its insert would succeed
    ddls,      \* DDL statements still to be judged by MustReloadSchemaOnDDL
    verdicts,  \* the statements judged so far, each with the answer
    blob,      \* the SQL text given to the parser's entry points
    ppc,       \* which entry point the parser's driver calls next
    res,       \* what each entry point returned on blob
    tkn,       \* the tokenizer the ParseNext calls share
    nexts,     \* what the ParseNext calls returned, in order
    pool,      \* parserPool: the parser objects it holds and every object's state
    callers,   \* the goroutines calling yyParsePooled: position, object held
    version,   \* the string given to ConvertMySQLVersionToCommentVersion
    converted, \* what ConvertMySQLVersionToCommentVersion returned on it
    operands,  \* the typed collations given to the collation merge
    merged,    \* the merges computed on them
    enabling   \* the goroutines calling Tracker.Enable: position, argument

evalVars == <<node, ctInner, inner, pc, evalOut, evalCount, nestOut, compOut, vm>>
trackerVars == <<tr, proc, table, delivered, saved>>
reloadVars == <<ddls, verdicts>>
parserVars == <<blob, ppc, res, tkn, nexts>>
poolVars == <<pool, callers>>
versionVars == <<version, converted>>
mergeVars == <<operands, merged>>
enableVars == <<enabling>>
vars == <<node, ctInner, inner, pc, evalOut, evalCount, nestOut, compOut, vm,
          tr, proc, table, delivered, saved, ddls, verdicts,
          blob, ppc, res, tkn, nexts, pool, callers,
          version, converted, operands, merged, enabling>>

---------------------------------------------------------------------------
(* Bounds of the model.                                                    *)

MaxLen == 4        \* longest byte string of an inner value
MaxEvals == 2      \* evaluations of the same node on the same row
MaxBatch == 2      \* most events in one call of the send callback
MaxEvents == 3     \* most events delivered in one run of the model
MaxDDLs == 2       \* most statements given to MustReloadSchemaOnDDL in one run
MaxBlob == 4       \* longest SQL text given to the parser, in characters
MaxCalls == 4      \* most ParseNext calls on one tokenizer
MaxParsers == 2    \* most parser objects parserPool.New allocates
MaxParses == 2     \* most yyParsePooled calls of one goroutine
MaxVersion == 7    \* longest version string, in characters
MaxEnables == 2    \* most Tracker.Enable calls of one goroutine

---------------------------------------------------------------------------
(* Collations, charsets, typed collations.                                 *)

CollationBinaryID == "binary"

CollationIDs ==
    {"binary", "utf8mb4_bin", "utf8mb4_general_ci",
     "utf16_bin", "utf16le_bin", "ucs2_bin", "utf32_bin"}

\* colldata.Lookup(col).Charset(): the charset a collation belongs to
Charset(col) ==
    CASE col = "binary"             -> "binary"
      [] col = "utf8mb4_bin"        -> "utf8mb4"
      [] col = "utf8mb4_general_ci" -> "utf8mb4"
      [] col = "utf16_bin"          -> "utf16"
      [] col = "utf16le_bin"        -> "utf16le"
      [] col = "ucs2_bin"           -> "ucs2"
      [] col = "utf32_bin"          -> "utf32"

Coercibilities ==
    {"Explicit", "None", "Implicit", "SysConst", "Coercible", "Numeric", "Ignorable"}
Repertoires == {"ASCII", "Unicode"}

TypedCollations ==
    [Collation : CollationIDs, Coercibility : Coercibilities, Repertoire : Repertoires]

collationNumeric ==
    [Collation |-> CollationBinaryID, Coercibility |-> "Numeric", Repertoire |-> "ASCII"]

collationBinary ==
    [Collation |-> CollationBinaryID, Coercibility |-> "Coercible", Repertoire |-> "ASCII"]

flagExplicitCollation == "ExplicitCollation"
flagNullable == "Nullable"

---------------------------------------------------------------------------
(* Values.  An eval is NULL (the nil interface), an *evalBytes or a        *)
(* number.  own says which allocation an *evalBytes is: "row" is the       *)
(* object the inner expression returned, "eval" one allocated by the       *)
(* current evaluation; a write through a pointer whose own is "row" is a   *)
(* write to the inner value.                                               *)

Bytes == {0, 65}

RECURSIVE SeqsUpTo(_, _)
SeqsUpTo(S, n) ==
    IF n = 0 THEN {<<>>}
    ELSE LET shorter == SeqsUpTo(S, n - 1)
         IN  shorter \cup {Append(s, b) : s \in {t \in shorter : Len(t) = n - 1}, b \in S}

ByteStrings == SeqsUpTo(Bytes, MaxLen)

NULL == [k |-> "null"]

evalBytes(tt, bytes, col, flag, own) ==
    [k |-> "bytes", tt |-> tt, bytes |-> bytes, col |-> col, flag |-> flag, own |-> own]

evalInt64(n) == [k |-> "int", n |-> n]

\* the inner expression does not evaluate on the row: Inner.eval returns err
InnerFails(err) == [k |-> "fails", err |-> err]

\* the inner expression does not compile: Inner.compile returns err
CompileFails(err) == [Type |-> "fails", err |-> err]

\* errors of the inner expression
InnerErrors == {"Unsupported", "DataOutOfRange"}

IsBytes(e) == e.k = "bytes"

\* decimal text of a small non-negative integer, as ASCII bytes
ToRawBytes(e) ==
    IF IsBytes(e) THEN e.bytes
    ELSE IF e.n < 10 THEN <<48 + e.n>>
    ELSE <<48 + (e.n \div 10), 48 + (e.n % 10)>>

newEvalText(bytes, typedcol) == evalBytes("VarChar", bytes, typedcol, {}, "eval")

newEvalBinary(bytes) == evalBytes("VarBinary", bytes, collationBinary, {}, "eval")

\* outcomes of an evaluation: a value, NULL, an error kind, or a Go panic
Value(v) == [kind |-> "value", val |-> v, err |-> "none"]
Null == [kind |-> "null", val |-> NULL, err |-> "none"]
Error(code) == [kind |-> "error", val |-> NULL, err |-> code]
Panic == [kind |-> "panic", val |-> NULL, err |-> "nil pointer dereference"]
NotRun == [kind |-> "notrun", val |-> NULL, err |-> "none"]

---------------------------------------------------------------------------
(* Helpers of the evalengine package that the two nodes call.              *)

\* Environment.EnsureCollate(fromID, toID): nil iff both collations belong
\* to the same charset
EnsureCollate(fromID, toID) == Charset(fromID) = Charset(toID)

\* e.withCollation(col): a new *evalBytes of the same type and bytes,
\* re-tagged with col
withCollation(e, col) == [e EXCEPT !.col = col, !.own = "eval"]

\* charset.Convert for the ASCII bytes of the model: one byte becomes one
\* code unit of the destination charset
RECURSIVE Transcode(_, _, _)
Transcode(bytes, from, to) ==
    IF bytes = <<>> \/ from = to \/ from = "binary" \/ to = "binary" THEN bytes
    ELSE LET b == Head(bytes)
             unit == CASE to \in {"utf16", "ucs2"} -> <<0, b>>
                       [] to = "utf16le"           -> <<b, 0>>
                       [] to = "utf32"             -> <<0, 0, 0, b>>
                       [] OTHER                    -> <<b>>
         IN  unit \o Transcode(Tail(bytes), from, to)

\* evalToVarchar(e, col, true): the character form of e in collation col
evalToVarchar(e, col) ==
    LET typedcol == [Collation |-> col, Coercibility |-> "Coercible", Repertoire |-> "ASCII"]
    IN  IF IsBytes(e)
        THEN Value(newEvalText(Transcode(e.bytes, Charset(e.col.Collation), Charset(col)), typedcol))
        ELSE Value(newEvalText(ToRawBytes(e), typedcol))

\* evalToBinary(e): e as an opaque binary string, in a new *evalBytes; the
\* result is a *evalBytes, which for a NULL input can only be the nil pointer
evalToBinary(e) ==
    IF e = NULL THEN Value(NULL) ELSE Value(newEvalBinary(ToRawBytes(e)))

\* the assignment b.flag |= f, through the pointer b; e is the inner value.
\* Gives the object written and the inner value afterwards.
StoreFlag(b, f, e) ==
    LET w == [b EXCEPT !.flag = @ \cup {f}]
    IN  [val |-> w, inner |-> IF b.own = "row" THEN w ELSE e]

Effect(out, innerAfter, nodeAfter) == [out |-> out, inner |-> innerAfter, node |-> nodeAfter]

---------------------------------------------------------------------------
(* CollateExpr.eval                                                        *)

\* a variant that re-tags the inner value itself instead of a copy of it
CollateExpr_eval_InPlace(c, e) ==
    IF e.k = "fails" THEN Effect(Error(e.err), e, c)
    ELSE IF e = NULL THEN Effect(Null, e, c)
    ELSE IF IsBytes(e)
    THEN IF ~EnsureCollate(e.col.Collation, c.TypedCollation.Collation)
         THEN Effect(Error("InvalidArgument"), e, c)
         ELSE LET w == StoreFlag([e EXCEPT !.col = c.TypedCollation], flagExplicitCollation, e)
              IN  Effect(Value(w.val), w.inner, c)
    ELSE LET r == evalToVarchar(e, c.TypedCollation.Collation)
         IN  IF r.kind = "error" THEN Effect(r, e, c)
             ELSE LET w == StoreFlag(r.val, flagExplicitCollation, e)
                  IN  Effect(Value(w.val), w.inner, c)

CollateExpr_eval(c, e) ==
    IF e.k = "fails" THEN Effect(Error(e.err), e, c)
    ELSE IF e = NULL THEN Effect(Null, e, c)
    ELSE IF IsBytes(e)
    THEN IF ~EnsureCollate(e.col.Collation, c.TypedCollation.Collation)
         THEN Effect(Error("InvalidArgument"), e, c)
         ELSE LET w == StoreFlag(withCollation(e, c.TypedCollation), flagExplicitCollation, e)
              IN  Effect(Value(w.val), w.inner, c)
    ELSE LET r == evalToVarchar(e, c.TypedCollation.Collation)
         IN  IF r.kind = "error" THEN Effect(r, e, c)
             ELSE LET w == StoreFlag(r.val, flagExplicitCollation, e)
                  IN  Effect(Value(w.val), w.inner, c)

---------------------------------------------------------------------------
(* introducerCast and IntroducerExpr.eval                                  *)

RECURSIVE Zeros(_)
Zeros(n) == IF n = 0 THEN <<>> ELSE <<0>> \o Zeros(n - 1)

\* the switch on the charset: append([]byte{0}, bytes...) and
\* append(make([]byte, 4-mod), bytes...)
\* a variant that puts the zero bytes after the original bytes
padBytes_Trailing(cs, bytes) ==
    IF cs \in {"utf16", "utf16le", "ucs2"}
    THEN IF Len(bytes) % 2 # 0 THEN bytes \o <<0>> ELSE bytes
    ELSE IF cs = "utf32"
    THEN LET mod == Len(bytes) % 4
         IN  IF mod # 0 THEN bytes \o Zeros(4 - mod) ELSE bytes
    ELSE bytes

padBytes(cs, bytes) ==
    IF cs \in {"utf16", "utf16le", "ucs2"}
    THEN IF Len(bytes) % 2 # 0 THEN <<0>> \o bytes ELSE bytes
    ELSE IF cs = "utf32"
    THEN LET mod == Len(bytes) % 4
         IN  IF mod # 0 THEN Zeros(4 - mod) \o bytes ELSE bytes
    ELSE bytes

\* a variant without the early return for the binary collation
introducerCast_NoBinary(e, col) ==
    IF ~IsBytes(e) THEN Panic
    ELSE LET typedcol == [Collation |-> col, Coercibility |-> "Coercible", Repertoire |-> "ASCII"]
         IN  Value(newEvalText(padBytes(Charset(col), e.bytes), typedcol))

introducerCast(e, col) ==
    IF col = CollationBinaryID THEN evalToBinary(e)
    ELSE IF ~IsBytes(e)
    THEN Panic   \* b is the nil *evalBytes: b.ToRawBytes() dereferences it
    ELSE LET typedcol == [Collation |-> col, Coercibility |-> "Coercible", Repertoire |-> "ASCII"]
         IN  Value(newEvalText(padBytes(Charset(col), e.bytes), typedcol))

\* a variant that casts whatever Inner.eval returned, error or not
IntroducerExpr_eval_NoErrCheck(expr, e) ==
    LET r == introducerCast(IF e.k = "fails" THEN NULL ELSE e, expr.TypedCollation.Collation)
    IN  IF r.kind # "value" THEN Effect(r, e, expr)
        ELSE IF r.val = NULL THEN Effect(Panic, e, expr)
        ELSE LET w == StoreFlag(r.val, flagExplicitCollation, e)
             IN  Effect(Value(w.val), w.inner, expr)

IntroducerExpr_eval(expr, e) ==
    LET r == introducerCast(e, expr.TypedCollation.Collation)
    IN  IF e.k = "fails" THEN Effect(Error(e.err), e, expr)
        ELSE IF r.kind # "value" THEN Effect(r, e, expr)
        ELSE IF r.val = NULL THEN Effect(Panic, e, expr)  \* b.flag on the nil pointer
        ELSE LET w == StoreFlag(r.val, flagExplicitCollation, e)
             IN  Effect(Value(w.val), w.inner, expr)

---------------------------------------------------------------------------
(* The compiler.  The code of the inner expression is one instruction      *)
(* that pushes the value the inner expression has on the row.  Code        *)
(* positions count from 1; a jump target of 0 is an unresolved placeholder.*)

ctype(t, col, flag) == [Type |-> t, Col |-> col, Flag |-> flag]

NoCtype == ctype("none", collationBinary, {})

Compiled(err, ct, code) == [done |-> TRUE, err |-> err, ct |-> ct, code |-> code]

NotCompiled == [done |-> FALSE, err |-> "none", ct |-> NoCtype, code |-> <<>>]

\* expr.Inner.compile(c): the code it emits; none when it fails
Inner_compile(ct) ==
    IF ct.Type = "fails" THEN <<>>
    ELSE <<[op |-> "Inner", target |-> 0, tt |-> ct.Type, col |-> ct.Col]>>

\* c.compileNullCheck1(ct): the conditional forward skip, target unresolved
compileNullCheck1(code) == Append(code, [op |-> "NullCheck1", target |-> 0, tt |-> "none", col |-> collationBinary])

\* c.asm.Collate(col)
asm_Collate(code, col) == Append(code, [op |-> "Collate", target |-> 0, tt |-> "VarChar", col |-> col])

\* c.asm.Convert_xc(1, t, collation, nil)
asm_Convert_xc(code, t, collation) ==
    Append(code, [op |-> "Convert_xc", target |-> 0, tt |-> t,
                  col |-> [Collation |-> collation, Coercibility |-> "Coercible", Repertoire |-> "ASCII"]])

\* c.asm.Introduce(1, t, col)
asm_Introduce(code, t, col) == Append(code, [op |-> "Introduce", target |-> 0, tt |-> t, col |-> col])

\* c.asm.jumpDestination(skip): resolve the placeholder at skip to the
\* position after the last instruction emitted
jumpDestination(code, skip) == [code EXCEPT ![skip].target = Len(code) + 1]

\* a variant that resolves the placeholder before the instruction is emitted
CollateExpr_compile_ResolveFirst(expr, ct) ==
    LET c0 == Inner_compile(ct)
        c1 == compileNullCheck1(c0)
        skip == Len(c1)
    IN  IF ct.Type = "fails" THEN Compiled(ct.err, NoCtype, c0)
        ELSE IF ct.Type = "VarChar" /\ ~EnsureCollate(ct.Col.Collation, expr.TypedCollation.Collation)
        THEN Compiled("InvalidArgument", NoCtype, c1)
        ELSE LET c2 == jumpDestination(c1, skip)
             IN  Compiled("none",
                          ctype("VarChar", expr.TypedCollation,
                                ct.Flag \cup {flagExplicitCollation, flagNullable}),
                          IF ct.Type \in {"VarChar", "VarBinary"}
                          THEN asm_Collate(c2, expr.TypedCollation)
                          ELSE asm_Convert_xc(c2, "VarChar", expr.TypedCollation.Collation))

\* a variant whose case VarChar does not fall through to the case VarBinary
\* but to the default
CollateExpr_compile_NoFallthrough(expr, ct) ==
    LET c0 == Inner_compile(ct)
        c1 == compileNullCheck1(c0)
        skip == Len(c1)
    IN  IF ct.Type = "fails" THEN Compiled(ct.err, NoCtype, c0)
        ELSE IF ct.Type = "VarChar" /\ ~EnsureCollate(ct.Col.Collation, expr.TypedCollation.Collation)
        THEN Compiled("InvalidArgument", NoCtype, c1)
        ELSE LET c2 == IF ct.Type = "VarBinary"
                       THEN asm_Collate(c1, expr.TypedCollation)
                       ELSE asm_Convert_xc(c1, "VarChar", expr.TypedCollation.Collation)
             IN  Compiled("none",
                          ctype("VarChar", expr.TypedCollation,
                                ct.Flag \cup {flagExplicitCollation, flagNullable}),
                          jumpDestination(c2, skip))

CollateExpr_compile(expr, ct) ==
    LET c0 == Inner_compile(ct)
        c1 == compileNullCheck1(c0)
        skip == Len(c1)
    IN  IF ct.Type = "fails" THEN Compiled(ct.err, NoCtype, c0)
        ELSE IF ct.Type = "VarChar" /\ ~EnsureCollate(ct.Col.Collation, expr.TypedCollation.Collation)
        THEN Compiled("InvalidArgument", NoCtype, c1)
        ELSE LET c2 == IF ct.Type \in {"VarChar", "VarBinary"}
                       THEN asm_Collate(c1, expr.TypedCollation)
                       ELSE asm_Convert_xc(c1, "VarChar", expr.TypedCollation.Collation)
             IN  Compiled("none",
                          ctype("VarChar", expr.TypedCollation,
                                ct.Flag \cup {flagExplicitCollation, flagNullable}),
                          jumpDestination(c2, skip))

IntroducerExpr_compile(expr, ct) ==
    LET c0 == Inner_compile(ct)
        t == IF expr.TypedCollation.Collation = CollationBinaryID THEN "VarBinary" ELSE "VarChar"
    IN  IF ct.Type = "fails" THEN Compiled(ct.err, NoCtype, c0)
        ELSE Compiled("none", ctype(t, expr.TypedCollation, {flagExplicitCollation}),
                      asm_Introduce(c0, t, expr.TypedCollation))

---------------------------------------------------------------------------
(* The VM: one step executes the instruction at ip on a private stack.     *)

VmIdle == [state |-> "idle", ip |-> 0, stack |-> <<>>, err |-> "none", ran |-> {}]

Top(stack) == stack[Len(stack)]

SetTop(stack, v) == [stack EXCEPT ![Len(stack)] = v]

\* the instruction's effect on the VM, given the row's inner value
vmExec(m, ins, e) ==
    CASE ins.op = "Inner" ->
            IF e.k = "fails" THEN [m EXCEPT !.state = "halted", !.err = e.err]
            ELSE [m EXCEPT !.stack = Append(@, e), !.ip = @ + 1]
      [] ins.op = "NullCheck1" ->
            [m EXCEPT !.ip = IF Top(m.stack) = NULL THEN ins.target ELSE @ + 1]
      [] ins.op = "Collate" ->
            [m EXCEPT !.stack = SetTop(@, [Top(@) EXCEPT !.col = ins.col]), !.ip = @ + 1]
      [] ins.op = "Convert_xc" ->
            LET r == evalToVarchar(Top(m.stack), ins.col.Collation)
            IN  IF r.kind = "error" THEN [m EXCEPT !.state = "halted", !.err = r.err]
                ELSE [m EXCEPT !.stack = SetTop(@, r.val), !.ip = @ + 1]
      [] ins.op = "Introduce" ->
            LET t == Top(m.stack)
            IN  IF ~IsBytes(t) THEN [m EXCEPT !.ip = @ + 1]
                ELSE [m EXCEPT !.stack = SetTop(@, [t EXCEPT !.tt = ins.tt, !.col = ins.col,
                                 !.bytes = IF ins.col.Collation = CollationBinaryID THEN @
                                           ELSE padBytes(Charset(ins.col.Collation), @)]),
                               !.ip = @ + 1]

\* the outcome of the compiled path once it has ended
RunOut ==
    IF compOut.done /\ compOut.err # "none" THEN Error(compOut.err)
    ELSE IF vm.state # "halted" THEN NotRun
    ELSE IF vm.err # "none" THEN Error(vm.err)
    ELSE IF Top(vm.stack) = NULL THEN Null
    ELSE Value(Top(vm.stack))

---------------------------------------------------------------------------
(* The evalengine driver: a node and a row are fixed; the node is          *)
(* evaluated MaxEvals times, then (a CollateExpr) evaluated under a second *)
(* CollateExpr of the same target, then compiled, then the code is run.    *)

Nodes == [kind : {"Collate", "Introducer"}, TypedCollation : TypedCollations]

textCol(id) == [Collation |-> id, Coercibility |-> "Implicit", Repertoire |-> "Unicode"]

\* compile-time types of the inner expression that are byte strings
ByteCtypes ==
    {ctype("VarChar", textCol(id), {flagNullable}) : id \in {"utf8mb4_bin", "utf16_bin"}}
    \cup {ctype("Text", textCol("utf8mb4_bin"), {flagNullable}),
          ctype("VarBinary", collationBinary, {flagNullable}),
          ctype("Blob", collationBinary, {flagNullable})}

IntCtype == ctype("Int64", collationNumeric, {flagNullable})

\* (compile-time type, value on the row) of the inner expression
Rows ==
    {<<ct, evalBytes(ct.Type, b, ct.Col, {}, "row")>> : ct \in ByteCtypes, b \in ByteStrings}
    \cup {<<IntCtype, evalInt64(n)>> : n \in {7, 42}}
    \cup {<<ct, NULL>> : ct \in ByteCtypes \cup {IntCtype}}
    \cup {<<CompileFails(err), InnerFails(err)>> : err \in InnerErrors}
    \cup {<<IntCtype, InnerFails(err)>> : err \in InnerErrors}

\* nothing to judge, no parser in use
ReloadIdle == ddls = <<>> /\ verdicts = <<>>

ParserIdle == blob = <<>> /\ ppc = "idle" /\ res = <<>> /\ tkn = <<>> /\ nexts = <<>>

PoolIdle == pool = <<>> /\ callers = <<>>

VersionIdle == version = <<>> /\ converted = <<>>

MergeIdle == operands = <<>> /\ merged = <<>>
EnableIdle == enabling = <<>>

\* no process goroutine has run: nothing recorded about its start
ProcNone(base) ==
    [pc |-> "none", gtid |-> "", base |-> base, wasEmpty |-> FALSE, reloads |-> 0,
     initErr |-> "notrun", pos |-> "", now |-> 0, streamed |-> FALSE]

TrackerIdle ==
    /\ tr = [enabled |-> FALSE, mu |-> "free", cancel |-> FALSE, wg |-> 0, ctxDone |-> FALSE]
    /\ proc = ProcNone(<<>>)
    /\ table = <<>>
    /\ delivered = <<>>
    /\ saved = <<>>

Init ==
    /\ node \in Nodes
    /\ \E row \in Rows : ctInner = row[1] /\ inner = row[2]
    /\ pc = "eval"
    /\ evalOut = NotRun
    /\ evalCount = 0
    /\ nestOut = NotRun
    /\ compOut = NotCompiled
    /\ vm = VmIdle
    /\ TrackerIdle
    /\ ReloadIdle
    /\ ParserIdle
    /\ PoolIdle
    /\ VersionIdle
    /\ MergeIdle
    /\ EnableIdle

\* c.Inner.eval(env) failed: the error is returned as it is; else f sees the value
CollateExpr_evalOn(c, innerEff) ==
    IF innerEff.out.kind \in {"error", "panic"} THEN Effect(innerEff.out, innerEff.inner, c)
    ELSE CollateExpr_eval(c, innerEff.out.val)

AfterEval(r, next) ==
    /\ evalOut' = r.out
    /\ inner' = r.inner
    /\ node' = r.node
    /\ evalCount' = evalCount + 1
    /\ pc' = IF evalCount + 1 >= MaxEvals THEN next ELSE "eval"
    /\ UNCHANGED <<ctInner, nestOut, compOut, vm>>

EvalCollate ==
    /\ pc = "eval"
    /\ node.kind = "Collate"
    /\ AfterEval(CollateExpr_eval(node, inner), "nest")
    /\ UNCHANGED <<trackerVars, reloadVars, parserVars, poolVars, versionVars, mergeVars, enableVars>>

EvalIntroducer ==
    /\ pc = "eval"
    /\ node.kind = "Introducer"
    /\ AfterEval(IntroducerExpr_eval(node, inner), "compile")
    /\ UNCHANGED <<trackerVars, reloadVars, parserVars, poolVars, versionVars, mergeVars, enableVars>>

\* (expr COLLATE c) COLLATE c: the outer node's Inner is the node itself
EvalNested ==
    /\ pc = "nest"
    /\ LET r1 == CollateExpr_eval(node, inner)
           r2 == CollateExpr_evalOn(node, r1)
       IN  /\ nestOut' = r2.out
           /\ inner' = r1.inner
           /\ node' = r2.node
    /\ pc' = "compile"
    /\ UNCHANGED <<ctInner, evalOut, evalCount, compOut, vm>>
    /\ UNCHANGED <<trackerVars, reloadVars, parserVars, poolVars, versionVars, mergeVars, enableVars>>

AfterCompile(r) ==
    /\ compOut' = r
    /\ IF r.err = "none"
       THEN pc' = "run" /\ vm' = [VmIdle EXCEPT !.state = "running", !.ip = 1]
       ELSE pc' = "done" /\ vm' = vm
    /\ UNCHANGED <<node, ctInner, inner, evalOut, evalCount, nestOut>>

CompileCollate ==
    /\ pc = "compile"
    /\ node.kind = "Collate"
    /\ AfterCompile(CollateExpr_compile(node, ctInner))
    /\ UNCHANGED <<trackerVars, reloadVars, parserVars, poolVars, versionVars, mergeVars, enableVars>>

CompileIntroducer ==
    /\ pc = "compile"
    /\ node.kind = "Introducer"
    /\ AfterCompile(IntroducerExpr_compile(node, ctInner))
    /\ UNCHANGED <<trackerVars, reloadVars, parserVars, poolVars, versionVars, mergeVars, enableVars>>

VmStep ==
    /\ pc = "run"
    /\ vm.state = "running"
    /\ LET m == IF vm.ip > Len(compOut.code)
                THEN [vm EXCEPT !.state = "halted"]
                ELSE [vmExec(vm, compOut.code[vm.ip], inner)
                         EXCEPT !.ran = @ \cup {compOut.code[vm.ip].op}]
       IN  /\ vm' = m
           /\ pc' = IF m.state = "halted" THEN "done" ELSE "run"
    /\ UNCHANGED <<node, ctInner, inner, evalOut, evalCount, nestOut, compOut>>
    /\ UNCHANGED <<trackerVars, reloadVars, parserVars, poolVars, versionVars, mergeVars, enableVars>>

Next ==
    \/ EvalCollate
    \/ EvalIntroducer
    \/ EvalNested
    \/ CompileCollate
    \/ CompileIntroducer
    \/ VmStep

Spec == Init /\ [][Next]_vars

---------------------------------------------------------------------------
(* Properties of CollateExpr and IntroducerExpr, checked under Spec.       *)

target == node.TypedCollation

Evaluated == evalCount >= 1

HasExplicit(v) == flagExplicitCollation \in v.flag

\* two outcomes agree: the same type, bytes and collation, or both NULL,
\* or the same error kind
SameOutcome(a, b) ==
    /\ a.kind = b.kind
    /\ a.err = b.err
    /\ a.kind = "value" =>
          /\ a.val.tt = b.val.tt
          /\ a.val.bytes = b.val.bytes
          /\ a.val.col = b.val.col

\* C1: for every CollateExpr, inner type and row, CollateExpr.eval and the
\* code emitted by CollateExpr.compile have the same outcome: the same type,
\* bytes and collation, or the same error kind.
C1_EvalAndCompiledAgree ==
    (node.kind = "Collate" /\ pc = "done") => SameOutcome(evalOut, RunOut)

\* C2: for an IntroducerExpr over a non-NULL byte string, the descriptor
\* that compile returns has the type, collation ID, coercibility, repertoire
\* and explicit-collation flag of the value that eval returns.
C2_IntroducerDescriptorMatchesValue ==
    (node.kind = "Introducer" /\ IsBytes(inner) /\ compOut.done /\ evalOut.kind = "value") =>
        /\ compOut.err = "none"
        /\ compOut.ct.Type = evalOut.val.tt
        /\ compOut.ct.Col.Collation = evalOut.val.col.Collation
        /\ compOut.ct.Col.Coercibility = evalOut.val.col.Coercibility
        /\ compOut.ct.Col.Repertoire = evalOut.val.col.Repertoire
        /\ (flagExplicitCollation \in compOut.ct.Flag) = HasExplicit(evalOut.val)

\* C3: when the inner expression of a CollateExpr is NULL, both paths give
\* NULL with no error, and the emitted code never executes the collate or
\* convert instruction.
C3_CollateNullOnBothPaths ==
    (node.kind = "Collate" /\ inner = NULL /\ pc = "done") =>
        /\ evalOut = Null
        /\ RunOut = Null
        /\ vm.ran \cap {"Collate", "Convert_xc"} = {}

\* C4: when the inner expression of an IntroducerExpr is NULL,
\* IntroducerExpr.eval returns NULL, for the binary target and for every
\* other target.
C4_IntroducerNullPropagates ==
    (node.kind = "Introducer" /\ inner = NULL /\ Evaluated) => evalOut = Null

\* number of bytes the padding rule adds to a string of n bytes
PadLen(cs, n) ==
    IF cs \in {"utf16", "utf16le", "ucs2"} THEN n % 2
    ELSE IF cs = "utf32" THEN (4 - (n % 4)) % 4
    ELSE 0

\* C5: introducerCast on a byte string of length n with a non-binary target
\* gives n + (n mod 2) bytes for UTF-16, UTF-16LE and UCS2, n + ((4 - n mod 4)
\* mod 4) for UTF-32 and n otherwise; the added bytes are zero and come first,
\* followed by the original bytes unchanged.
C5_PaddingRule ==
    (node.kind = "Introducer" /\ IsBytes(inner) /\ Evaluated
        /\ target.Collation # CollationBinaryID) =>
        LET n == Len(inner.bytes)
            k == PadLen(Charset(target.Collation), n)
        IN  /\ evalOut.kind = "value"
            /\ Len(evalOut.val.bytes) = n + k
            /\ \A i \in 1..k : evalOut.val.bytes[i] = 0
            /\ \A i \in 1..n : evalOut.val.bytes[k + i] = inner.bytes[i]

\* a 3-byte string introduced as UTF-32 got one zero byte in front, and a
\* 1-byte string would get three
C5_Witness ==
    /\ node.kind = "Introducer"
    /\ Charset(target.Collation) = "utf32"
    /\ IsBytes(inner)
    /\ inner.bytes = <<65, 0, 65>>
    /\ Evaluated
    /\ evalOut.kind = "value"
    /\ evalOut.val.bytes = <<0, 65, 0, 65>>

\* C6: CollateExpr.eval on a non-NULL value: a byte string succeeds iff its
\* charset is the target's charset and otherwise fails with InvalidArgument
\* and no value; every successful result carries exactly the target
\* TypedCollation and the ExplicitCollation flag.
C6_CollateEvalResult ==
    (node.kind = "Collate" /\ inner # NULL /\ Evaluated) =>
        /\ IsBytes(inner) =>
              IF Charset(inner.col.Collation) = Charset(target.Collation)
              THEN evalOut.kind = "value"
              ELSE evalOut = Error("InvalidArgument")
        /\ evalOut.kind = "value" =>
              /\ evalOut.val.col = target
              /\ HasExplicit(evalOut.val)

\* C7: an Introducer with the binary target yields a binary value with the
\* bytes of the inner literal, unpadded, Coercible and explicit; with any
\* other target a character value of the target collation ID, Coercible,
\* repertoire ASCII and explicit.
C7_IntroducerResult ==
    (node.kind = "Introducer" /\ IsBytes(inner) /\ Evaluated) =>
        /\ evalOut.kind = "value"
        /\ HasExplicit(evalOut.val)
        /\ evalOut.val.col.Coercibility = "Coercible"
        /\ IF target.Collation = CollationBinaryID
           THEN /\ evalOut.val.tt = "VarBinary"
                /\ evalOut.val.bytes = inner.bytes
           ELSE /\ evalOut.val.tt = "VarChar"
                /\ evalOut.val.col.Collation = target.Collation
                /\ evalOut.val.col.Repertoire = "ASCII"

\* an odd-length UTF-16 string introduced as binary keeps its three bytes
C7_Witness ==
    /\ node.kind = "Introducer"
    /\ target.Collation = CollationBinaryID
    /\ IsBytes(inner)
    /\ inner.tt = "VarChar"
    /\ Len(inner.bytes) = 3
    /\ Evaluated
    /\ evalOut.kind = "value"
    /\ Len(evalOut.val.bytes) = 3

\* C8: whenever Collate(v, c) succeeds, Collate(Collate(v, c), c) succeeds
\* too and equals it in type, bytes, collation and flags.
C8_CollateIdempotent ==
    (node.kind = "Collate" /\ nestOut # NotRun /\ evalOut.kind = "value") =>
        /\ nestOut.kind = "value"
        /\ nestOut.val.tt = evalOut.val.tt
        /\ nestOut.val.bytes = evalOut.val.bytes
        /\ nestOut.val.col = evalOut.val.col
        /\ nestOut.val.flag = evalOut.val.flag

---------------------------------------------------------------------------
(* schema.Tracker.  Statements are SQL texts; Parser_Parse gives the AST   *)
(* the parser builds for each text of the model.                           *)

dbname == "main"

noTable == [Qualifier |-> "", Name |-> ""]

tableName(q, n) == [Qualifier |-> q, Name |-> n]

Ast(kind, tbl, toTables) == [err |-> FALSE, kind |-> kind, table |-> tbl, toTables |-> toTables]

\* parser.Parse(sql): the statement, or an error
Parser_Parse(sql) ==
    CASE sql = "create table t1 (id int)" ->
            Ast("DDL", tableName("", "t1"), <<>>)
      [] sql = "alter table other.t1 add c int" ->
            Ast("DDL", tableName("other", "t1"), <<>>)
      [] sql = "rename table other.a to main.b" ->
            Ast("DDL", noTable, <<tableName("main", "b")>>)
      [] sql = "alter table main.t1 add c int" ->
            Ast("DDL", tableName("main", "t1"), <<>>)
      [] sql = "rename table a to other.b" ->
            Ast("DDL", noTable, <<tableName("other", "b")>>)
      [] sql = "rename table a to _vt_hld_6ace8bcef73211ea87e9f875a4d24e90_20200915120410_, c to d" ->
            Ast("DDL", noTable,
                <<tableName("", "_vt_hld_6ace8bcef73211ea87e9f875a4d24e90_20200915120410_"),
                  tableName("", "d")>>)
      [] sql = "alter table _vt_hld_6ace8bcef73211ea87e9f875a4d24e90_20200915120410_ add c int" ->
            Ast("DDL", tableName("", "_vt_hld_6ace8bcef73211ea87e9f875a4d24e90_20200915120410_"), <<>>)
      [] sql = "alter table other._vt_hld_6ace8bcef73211ea87e9f875a4d24e90_20200915120410_ add c int" ->
            Ast("DDL", tableName("other", "_vt_hld_6ace8bcef73211ea87e9f875a4d24e90_20200915120410_"), <<>>)
      [] sql = "create database d1" ->
            Ast("DBDDL", noTable, <<>>)
      [] sql = "select 1" ->
            Ast("Other", noTable, <<>>)
      [] OTHER ->
            [err |-> TRUE, kind |-> "none", table |-> noTable, toTables |-> <<>>]

\* schema.IsOnlineDDLTableName(tableName)
IsOnlineDDLTableName(name) ==
    name = "_vt_hld_6ace8bcef73211ea87e9f875a4d24e90_20200915120410_"

\* TableName.IsEmpty
IsEmpty(t) == t.Name = ""

\* a variant of the loop that does not compare the qualifier with the database
RECURSIVE anyTableReloads_AnyDb(_, _)
anyTableReloads_AnyDb(tables, db) ==
    IF tables = <<>> THEN FALSE
    ELSE LET t == Head(tables)
         IN  IF IsEmpty(t) THEN anyTableReloads_AnyDb(Tail(tables), db)
             ELSE IF IsOnlineDDLTableName(t.Name) THEN anyTableReloads_AnyDb(Tail(tables), db)
             ELSE TRUE

\* the loop over tables of MustReloadSchemaOnDDL
RECURSIVE anyTableReloads(_, _)
anyTableReloads(tables, db) ==
    IF tables = <<>> THEN FALSE
    ELSE LET t == Head(tables)
         IN  IF IsEmpty(t) THEN anyTableReloads(Tail(tables), db)
             ELSE IF t.Qualifier # "" /\ t.Qualifier # db THEN anyTableReloads(Tail(tables), db)
             ELSE IF IsOnlineDDLTableName(t.Name) THEN anyTableReloads(Tail(tables), db)
             ELSE TRUE

MustReloadSchemaOnDDL(sql, db) ==
    LET ast == Parser_Parse(sql)
    IN  IF ast.err THEN FALSE
        ELSE IF ast.kind = "DBDDL" THEN FALSE
        ELSE IF ast.kind = "DDL" THEN anyTableReloads(<<ast.table>> \o ast.toTables, db)
        ELSE FALSE

Gtids == {"MySQL56/u:1-5", "MySQL56/u:1-6"}

Timestamps == {10, 20}

DDLStatements == {"create table t1 (id int)", "alter table other.t1 add c int"}

\* not an event: the place in delivered where a process goroutine started
StartMark == [Type |-> "START", Gtid |-> "", Statement |-> "", Timestamp |-> 0]

VEvent(type, gtid, statement, timestamp) ==
    [Type |-> type, Gtid |-> gtid, Statement |-> statement, Timestamp |-> timestamp]

\* the events a stream delivers: GTID events carry a position, DDL events a
\* statement, other events (here a row event's field event) neither
VEvents ==
    {VEvent("GTID", g, "", t) : g \in Gtids, t \in {10}}
    \cup {VEvent("DDL", "", st, t) : st \in DDLStatements, t \in Timestamps}
    \cup {VEvent("OTHER", "", "create table t1 (id int)", 20)}

schemaVersionRow(pos, ddl, timeUpdated) == [pos |-> pos, ddl |-> ddl, time_updated |-> timeUpdated]

\* saveCurrentSchemaToDb: ok is whether marshalling the schema, getting a
\* connection and executing the insert all succeed
saveCurrentSchemaToDb(tbl, gtid, ddl, timestamp, ok) ==
    IF ~ok THEN [err |-> TRUE, table |-> tbl]
    ELSE [err |-> FALSE, table |-> Append(tbl, schemaVersionRow(gtid, ddl, timestamp))]

\* a variant that does not reject an empty gtid or ddl
schemaUpdated_Unchecked(tbl, gtid, ddl, timestamp, ok) ==
    saveCurrentSchemaToDb(tbl, gtid, ddl, timestamp, ok)

schemaUpdated(tbl, gtid, ddl, timestamp, ok) ==
    IF gtid = "" \/ ddl = "" THEN [err |-> TRUE, table |-> tbl]
    ELSE saveCurrentSchemaToDb(tbl, gtid, ddl, timestamp, ok)

\* the send callback of process: the loop over the events of one call;
\* oks[i] is whether an insert for events[i] succeeds
RECURSIVE sendEvents(_, _, _, _)
sendEvents(gtid, tbl, events, oks) ==
    IF events = <<>> THEN [gtid |-> gtid, table |-> tbl]
    ELSE LET event == Head(events)
             g == IF event.Type = "GTID" THEN event.Gtid ELSE gtid
             t == IF event.Type = "DDL" /\ MustReloadSchemaOnDDL(event.Statement, dbname)
                  THEN schemaUpdated(tbl, g, event.Statement, event.Timestamp, Head(oks)).table
                  ELSE tbl
         IN  sendEvents(g, t, Tail(events), Tail(oks))

---------------------------------------------------------------------------
(* The Tracker's operations and its process goroutine.                     *)

EvalIdle ==
    /\ node = [kind |-> "Collate", TypedCollation |-> collationBinary]
    /\ ctInner = NoCtype
    /\ inner = NULL
    /\ pc = "idle"
    /\ evalOut = NotRun
    /\ evalCount = 0
    /\ nestOut = NotRun
    /\ compOut = NotCompiled
    /\ vm = VmIdle

\* NewTracker; the schema_version table is empty or holds an earlier row
InitTracker ==
    /\ tr \in [enabled : BOOLEAN, mu : {"free"}, cancel : {FALSE}, wg : {0}, ctxDone : {FALSE}]
    /\ table \in {<<>>, <<schemaVersionRow("MySQL56/u:1-4", "create table t0 (id int)", 5)>>}
    /\ proc = ProcNone(table)
    /\ delivered = <<>>
    /\ saved = <<>>
    /\ EvalIdle
    /\ ReloadIdle
    /\ ParserIdle
    /\ PoolIdle
    /\ VersionIdle
    /\ MergeIdle
    /\ EnableIdle

\* Tracker.Open
Open ==
    /\ tr.mu = "free"
    /\ IF tr.enabled /\ ~tr.cancel
       THEN /\ tr' = [tr EXCEPT !.cancel = TRUE, !.ctxDone = FALSE, !.wg = 1]
            /\ proc' = [ProcNone(proc.base) EXCEPT !.pc = "init"]
            /\ IF delivered # <<>> /\ Len(delivered) < MaxEvents
                  /\ delivered[Len(delivered)] # StartMark
               THEN delivered' = Append(delivered, StartMark) /\ saved' = Append(saved, TRUE)
               ELSE UNCHANGED <<delivered, saved>>
       ELSE UNCHANGED <<tr, proc, delivered, saved>>
    /\ UNCHANGED table
    /\ UNCHANGED <<evalVars, reloadVars, parserVars, poolVars, versionVars, mergeVars, enableVars>>

\* Tracker.Close up to tr.wg.Wait(), with tr.mu held
CloseCancel ==
    /\ tr.mu = "free"
    /\ IF tr.cancel
       THEN tr' = [tr EXCEPT !.mu = "Close", !.ctxDone = TRUE, !.cancel = FALSE]
       ELSE UNCHANGED tr
    /\ UNCHANGED <<proc, table, delivered, saved>>
    /\ UNCHANGED <<evalVars, reloadVars, parserVars, poolVars, versionVars, mergeVars, enableVars>>

\* Tracker.Close from the return of tr.wg.Wait()
CloseWaited ==
    /\ tr.mu = "Close"
    /\ tr.wg = 0
    /\ tr' = [tr EXCEPT !.mu = "free"]
    /\ UNCHANGED <<proc, table, delivered, saved>>
    /\ UNCHANGED <<evalVars, reloadVars, parserVars, poolVars, versionVars, mergeVars, enableVars>>

\* the deferred tr.wg.Done() of process
ProcessReturns ==
    /\ tr' = [tr EXCEPT !.wg = 0]
    /\ proc' = [proc EXCEPT !.pc = "none"]

PrimaryPositions == {"MySQL56/u:1-4", "MySQL56/u:1-5"}

\* a variant that saves the schema whether or not the table is empty
possiblyInsertInitialSchema_Always(tbl, fail, pos, now) ==
    IF fail = "isSchemaVersionTableEmpty" THEN [err |-> fail, table |-> tbl, reloads |-> 0]
    ELSE IF fail \in {"Reload", "currentPosition"} THEN [err |-> fail, table |-> tbl, reloads |-> 1]
    ELSE LET r == saveCurrentSchemaToDb(tbl, pos, "", now, fail = "none")
         IN  [err |-> IF r.err THEN fail ELSE "none", table |-> r.table, reloads |-> 1]

\* possiblyInsertInitialSchema: fail names the call that returns an error
\* when it is made, pos is what currentPosition gives, now the clock.
\* Gives the error, the table afterwards and the calls of engine.Reload made.
possiblyInsertInitialSchema(tbl, fail, pos, now) ==
    IF fail = "isSchemaVersionTableEmpty" THEN [err |-> fail, table |-> tbl, reloads |-> 0]
    ELSE IF tbl # <<>> THEN [err |-> "none", table |-> tbl, reloads |-> 0]
    ELSE IF fail \in {"Reload", "currentPosition"} THEN [err |-> fail, table |-> tbl, reloads |-> 1]
    ELSE LET r == saveCurrentSchemaToDb(tbl, pos, "", now, fail = "none")
         IN  [err |-> IF r.err THEN fail ELSE "none", table |-> r.table, reloads |-> 1]

\* process up to the for loop: possiblyInsertInitialSchema, and the return
\* on its error
ProcessStart ==
    /\ proc.pc = "init"
    /\ \E fail \in {"none", "isSchemaVersionTableEmpty", "Reload", "currentPosition",
                    "saveCurrentSchemaToDb"}, pos \in PrimaryPositions, now \in {5} :
          LET r == possiblyInsertInitialSchema(table, fail, pos, now)
              p == [proc EXCEPT !.wasEmpty = (table = <<>>), !.reloads = r.reloads,
                                !.initErr = r.err, !.pos = pos, !.now = now]
          IN  /\ table' = r.table
              /\ IF r.err # "none"
                 THEN /\ tr' = [tr EXCEPT !.wg = 0]
                      /\ proc' = [p EXCEPT !.pc = "none"]
                 ELSE /\ tr' = tr
                      /\ proc' = [p EXCEPT !.pc = "loop",
                                           !.base = IF r.table # table THEN r.table ELSE @]
    /\ UNCHANGED <<delivered, saved>>
    /\ UNCHANGED <<evalVars, reloadVars, parserVars, poolVars, versionVars, mergeVars, enableVars>>

\* the for loop of process calls tr.vs.Stream
StreamCall ==
    /\ proc.pc = "loop"
    /\ proc' = [proc EXCEPT !.pc = "stream", !.streamed = TRUE]
    /\ UNCHANGED <<tr, table, delivered, saved>>
    /\ UNCHANGED <<evalVars, reloadVars, parserVars, poolVars, versionVars, mergeVars, enableVars>>

Batches == SeqsUpTo(VEvents, MaxBatch) \ {<<>>}

\* vs.Stream calls the send callback with a batch of events
StreamSend ==
    /\ proc.pc = "stream"
    /\ \E events \in Batches :
          /\ Len(delivered) + Len(events) <= MaxEvents
          /\ \E oks \in [1..Len(events) -> BOOLEAN] :
                /\ \A i \in 1..Len(events) : events[i].Type # "DDL" => oks[i]
                /\ LET r == sendEvents(proc.gtid, table, events, oks)
                   IN  /\ proc' = [proc EXCEPT !.gtid = r.gtid]
                       /\ table' = r.table
                /\ delivered' = delivered \o events
                /\ saved' = saved \o oks
    /\ UNCHANGED tr
    /\ UNCHANGED <<evalVars, reloadVars, parserVars, poolVars, versionVars, mergeVars, enableVars>>

\* vs.Stream returns, with or without an error
StreamReturns ==
    /\ proc.pc = "stream"
    /\ proc' = [proc EXCEPT !.pc = "select"]
    /\ UNCHANGED <<tr, table, delivered, saved>>
    /\ UNCHANGED <<evalVars, reloadVars, parserVars, poolVars, versionVars, mergeVars, enableVars>>

\* select: case <-ctx.Done()
SelectDone ==
    /\ proc.pc = "select"
    /\ tr.ctxDone
    /\ ProcessReturns
    /\ UNCHANGED <<table, delivered, saved>>
    /\ UNCHANGED <<evalVars, reloadVars, parserVars, poolVars, versionVars, mergeVars, enableVars>>

\* select: case <-time.After(5 * time.Second)
SelectAfter ==
    /\ proc.pc = "select"
    /\ proc' = [proc EXCEPT !.pc = "sleep"]
    /\ UNCHANGED <<tr, table, delivered, saved>>
    /\ UNCHANGED <<evalVars, reloadVars, parserVars, poolVars, versionVars, mergeVars, enableVars>>

\* time.Sleep(5 * time.Second), then the next turn of the loop
SleepEnds ==
    /\ proc.pc = "sleep"
    /\ proc' = [proc EXCEPT !.pc = "loop"]
    /\ UNCHANGED <<tr, table, delivered, saved>>
    /\ UNCHANGED <<evalVars, reloadVars, parserVars, poolVars, versionVars, mergeVars, enableVars>>

NextTracker ==
    \/ Open
    \/ CloseCancel
    \/ CloseWaited
    \/ ProcessStart
    \/ StreamCall
    \/ StreamSend
    \/ StreamReturns
    \/ SelectDone
    \/ SelectAfter
    \/ SleepEnds

SpecTracker == InitTracker /\ [][NextTracker]_vars

---------------------------------------------------------------------------
(* Properties of the Tracker, checked under SpecTracker.                   *)

\* the most recently received GTID among the first i delivered events, as
\* far as the process goroutine that received event i received them
RECURSIVE LastGtid(_, _)
LastGtid(evs, i) ==
    IF i = 0 \/ evs[i].Type = "START" THEN ""
    ELSE IF evs[i].Type = "GTID" THEN evs[i].Gtid
    ELSE LastGtid(evs, i - 1)

\* the rows the delivered events call for, in the order of delivery
RECURSIVE RowsFor(_, _, _)
RowsFor(evs, oks, i) ==
    IF i = 0 THEN <<>>
    ELSE LET ev == evs[i]
             before == RowsFor(evs, oks, i - 1)
         IN  IF /\ ev.Type = "DDL"
                /\ MustReloadSchemaOnDDL(ev.Statement, dbname)
                /\ LastGtid(evs, i) # ""
                /\ oks[i]
             THEN Append(before, schemaVersionRow(LastGtid(evs, i), ev.Statement, ev.Timestamp))
             ELSE before

Streaming == proc.pc \in {"loop", "stream", "select", "sleep"}

\* C10: while the process loop is streaming, every delivered DDL event for
\* which MustReloadSchemaOnDDL is true, once a GTID event has been received
\* and if the insert succeeds, has added exactly one row with the most
\* recently received GTID, its statement and its timestamp, in the order of
\* delivery; no other event has added a row.
C10_OneRowPerReloadingDDL ==
    table = proc.base \o RowsFor(delivered, saved, Len(delivered))

\* two DDL events after a GTID event have added two rows, a third event
\* that needs no reload none
C10_Witness ==
    /\ Streaming
    /\ Len(delivered) = 3
    /\ Len(table) = Len(proc.base) + 2
    /\ table[Len(table)].pos = "MySQL56/u:1-6"
    /\ table[Len(table)].time_updated = 20

\* C11: the step of a process goroutine that runs possiblyInsertInitialSchema
\* stores a row if and only if the table is empty at that moment and no call
\* fails; the row has an empty ddl and the primary position as gtid and comes
\* after one reload of the engine; a table that is not empty gets no row and
\* no reload; on an error the goroutine ends.  Stream has not been called
\* before that step, and is never called by a goroutine whose step failed.
C11_InitialSchemaRow ==
    [][/\ (proc.pc = "init" /\ proc'.pc # "init") =>
             /\ ~proc'.streamed
             /\ (table' # table) <=> (table = <<>> /\ proc'.initErr = "none")
             /\ table' # table =>
                   /\ table' = <<schemaVersionRow(proc'.pos, "", proc'.now)>>
                   /\ proc'.reloads = 1
             /\ table # <<>> => (table' = table /\ proc'.reloads = 0)
             /\ proc'.initErr # "none" => (proc'.pc = "none" /\ tr'.wg = 0)
             /\ proc'.initErr = "none" => proc'.pc = "loop"
       /\ proc'.streamed => proc'.initErr = "none"]_vars

\* a goroutine that found the table empty has saved the initial row and is
\* inside its first Stream call
C11_Witness ==
    /\ proc.pc = "stream"
    /\ proc.wasEmpty
    /\ proc.initErr = "none"
    /\ table = <<schemaVersionRow("MySQL56/u:1-5", "", 5)>>

\* a goroutine whose reload failed has ended without calling Stream
C11_WitnessFailed ==
    /\ proc.initErr = "Reload"
    /\ proc.pc = "none"
    /\ proc.reloads = 1
    /\ table = <<>>

\* C26: while the Tracker is open, that is while tr.cancel is set, its
\* process goroutine is alive: starting, inside a Stream call or waiting to
\* call Stream again.
C26_OpenKeepsProcessAlive ==
    tr.cancel => proc.pc \in {"init", "loop", "stream", "select", "sleep"}

---------------------------------------------------------------------------
(* sqlparser.  A SQL text is a sequence of characters; each character of   *)
(* the model stands for one lexical element of SQL:                        *)
(*   " "  a blank             ";"  the semicolon                           *)
(*   "s"  a complete SELECT that uses the bind variable v1                 *)
(*   "d"  a complete DDL statement                                         *)
(*   "c"  a comment           "e"  a character that starts no token        *)
(*   "{"  the opening of a MySQL-specific comment, "}" its closing; a "}"  *)
(*        outside such a comment is an operator, which no statement has    *)
(* The Tokenizer and the generated parser are the package's token.go and   *)
(* sql.go.                                                                 *)

eofChar == "EOF"

Chars == {" ", ";", "s", "d", "c", "{", "}", "e"}

Blobs == SeqsUpTo(Chars, MaxBlob)

noSpecial == [on |-> FALSE, buf |-> <<>>, Pos |-> 0]

noError == [Err |-> "nil", Pos |-> 0, Near |-> ""]

nilStatement == [kind |-> "nil", FullyParsed |-> FALSE, Comments |-> 0]

Select(comments) == [kind |-> "Select", FullyParsed |-> TRUE, Comments |-> comments]

DDL(fullyParsed, comments) == [kind |-> "DDL", FullyParsed |-> fullyParsed, Comments |-> comments]

CommentOnly(comments) == [kind |-> "CommentOnly", FullyParsed |-> TRUE, Comments |-> comments]

NewStringTokenizer(sql) ==
    [buf |-> sql, Pos |-> 0, multi |-> FALSE, LastError |-> noError,
     ParseTree |-> nilStatement, partialDDL |-> nilStatement, BindVars |-> {},
     lastToken |-> "", specialComment |-> noSpecial]

\* tkn.cur(): the character at Pos, or eofChar
cur(buf, pos) == IF pos >= Len(buf) THEN eofChar ELSE buf[pos + 1]

\* tkn.skipBlank(): the position of the next character that is not a blank
RECURSIVE skipBlank(_, _)
skipBlank(buf, pos) == IF cur(buf, pos) = " " THEN skipBlank(buf, pos + 1) ELSE pos

\* index of the first "}" at or after index from, or 0
RECURSIVE FindClose(_, _)
FindClose(buf, from) ==
    IF from > Len(buf) THEN 0
    ELSE IF buf[from] = "}" THEN from
    ELSE FindClose(buf, from + 1)

\* one token off buf at pos: its type, the position after it and, for a
\* MySQL-specific comment, the tokenizer over the comment's text
scanPlain(buf, pos, multi) ==
    LET tok(typ, at) == [typ |-> typ, Pos |-> at, special |-> noSpecial]
        comment(p, close) ==
            IF close = 0 THEN tok("LEX_ERROR", Len(buf))
            ELSE [typ |-> "SPECIAL", Pos |-> close,
                  special |-> [on |-> TRUE, buf |-> SubSeq(buf, p + 2, close - 1), Pos |-> 0]]
        token(p, ch) ==
            CASE ch = eofChar -> tok("0", p)
              [] ch = ";" -> IF multi THEN tok("0", p) ELSE tok(";", p + 1)
              [] ch = "s" -> tok("SELECT", p + 1)
              [] ch = "d" -> tok("DDL", p + 1)
              [] ch = "}" -> tok("OP", p + 1)
              [] ch = "c" -> tok("COMMENT", p + 1)
              [] ch = "{" -> comment(p, FindClose(buf, p + 2))
              [] OTHER -> tok("LEX_ERROR", p + 1)
        at(p) == token(p, cur(buf, p))
    IN  at(skipBlank(buf, pos))

\* Tokenizer.Scan: the tokens of a MySQL-specific comment come first, from a
\* tokenizer of their own, while Pos stays behind the comment
RECURSIVE Scan(_)
Scan(t) ==
    LET outer(o) ==
            IF o.special.on
            THEN Scan([t EXCEPT !.Pos = o.Pos, !.specialComment = o.special])
            ELSE [typ |-> o.typ, tkn |-> [t EXCEPT !.Pos = o.Pos, !.specialComment = noSpecial]]
        ofComment(r) ==
            IF t.specialComment.on /\ r.typ # "0"
            THEN [typ |-> r.typ, tkn |-> [t EXCEPT !.specialComment.Pos = r.Pos]]
            ELSE outer(scanPlain(t.buf, t.Pos, t.multi))
    IN  ofComment(scanPlain(t.specialComment.buf, t.specialComment.Pos, FALSE))

\* Tokenizer.Lex: the next token for the parser; comments are passed on only
\* while the grammar allows them, and the end of a statement or an invalid
\* token drops the partially parsed DDL
RECURSIVE Lex(_, _)
Lex(t, AllowComments) ==
    LET token(r) ==
            IF r.typ = "COMMENT" /\ ~AllowComments THEN Lex(r.tkn, AllowComments)
            ELSE [typ |-> r.typ,
                  tkn |-> [r.tkn EXCEPT !.lastToken = r.typ,
                                        !.partialDDL = IF r.typ \in {"0", ";", "LEX_ERROR"}
                                                       THEN nilStatement ELSE @]]
    IN  token(Scan(t))

\* Tokenizer.skipStatement
RECURSIVE skipStatement(_)
skipStatement(t) ==
    LET token(r) == IF r.typ \in {"0", ";", "LEX_ERROR"} THEN r.tkn ELSE skipStatement(r.tkn)
    IN  token(Scan(t))

\* Tokenizer.Error, which the parser calls on a syntax error
Tokenizer_Error(t) ==
    skipStatement([t EXCEPT !.LastError =
                       [Err |-> "syntax error", Pos |-> t.Pos + 1, Near |-> t.lastToken]])

\* the parser accepts: setParseTree, return 0; or it does not: Error, return 1
accept(t, stmt) == [ret |-> 0, tkn |-> [t EXCEPT !.ParseTree = stmt]]

reject(t) == [ret |-> 1, tkn |-> Tokenizer_Error(t)]

\* rule semicolon_opt and the end of the input; a is the token after the command
endOfCommand(a, stmt) ==
    IF a.typ = "0" THEN accept(a.tkn, stmt)
    ELSE IF a.typ = ";"
    THEN LET after(b) == IF b.typ = "0" THEN accept(b.tkn, stmt) ELSE reject(b.tkn)
         IN  after(Lex(a.tkn, FALSE))
    ELSE reject(a.tkn)

\* rule comment_opt: the comments in front of the command
RECURSIVE comment_opt(_, _)
comment_opt(t, n) ==
    LET token(a) ==
            IF a.typ = "COMMENT" THEN comment_opt(a.tkn, n + 1)
            ELSE [typ |-> a.typ, tkn |-> a.tkn, comments |-> n]
    IN  token(Lex(t, TRUE))

\* yyParserImpl.Parse on the grammar  any_command: comment_opt command
\* semicolon_opt, where command is empty, a SELECT or a DDL; the DDL is
\* recorded as partially parsed as soon as its prefix is reduced
yyParse(yylex) ==
    LET command(c) ==
            CASE c.typ = "SELECT" ->
                    endOfCommand(Lex([c.tkn EXCEPT !.BindVars = @ \cup {"v1"}], FALSE),
                                 Select(c.comments))
              [] c.typ = "DDL" ->
                    endOfCommand(Lex([c.tkn EXCEPT !.partialDDL = DDL(FALSE, c.comments)], FALSE),
                                 DDL(TRUE, c.comments))
              [] c.typ \in {"0", ";"} ->
                    endOfCommand([typ |-> c.typ, tkn |-> c.tkn],
                                 IF c.comments > 0 THEN CommentOnly(c.comments)
                                 ELSE nilStatement)
              [] OTHER -> reject(c.tkn)
    IN  command(comment_opt(yylex, 0))

---------------------------------------------------------------------------
(* The entry points of parser.go.  A parse takes its parser object from    *)
(* parserPool, zeroed; SpecPool treats the pool.                           *)

yyParsePooled(yylex) == yyParse(yylex)

ErrEmpty == "Query was empty"

ErrExtra == "extra characters encountered after end of DDL"

noBindVars == {}

Returned(stmt, bindVars, err) == [stmt |-> stmt, BindVars |-> bindVars, err |-> err]

\* a variant that does not look for a token behind the partial DDL
Parse2_NoScan(sql) ==
    LET parsed(ret, tokenizer) ==
            IF ret # 0 \/ tokenizer.LastError # noError
            THEN IF tokenizer.partialDDL # nilStatement
                 THEN Returned([tokenizer.partialDDL EXCEPT !.FullyParsed = FALSE],
                               tokenizer.BindVars, "nil")
                 ELSE Returned(nilStatement, noBindVars, tokenizer.LastError.Err)
            ELSE IF tokenizer.ParseTree = nilStatement
            THEN Returned(nilStatement, noBindVars, ErrEmpty)
            ELSE Returned(tokenizer.ParseTree, tokenizer.BindVars, "nil")
        call(p) == parsed(p.ret, p.tkn)
    IN  call(yyParsePooled(NewStringTokenizer(sql)))

Parse2(sql) ==
    LET parsed(ret, tokenizer) ==
            IF ret # 0 \/ tokenizer.LastError # noError
            THEN IF tokenizer.partialDDL # nilStatement
                 THEN IF Scan(tokenizer).typ # "0"
                      THEN Returned(nilStatement, noBindVars, ErrExtra)
                      ELSE Returned([tokenizer.partialDDL EXCEPT !.FullyParsed = FALSE],
                                    tokenizer.BindVars, "nil")
                 ELSE Returned(nilStatement, noBindVars, tokenizer.LastError.Err)
            ELSE IF tokenizer.ParseTree = nilStatement
            THEN Returned(nilStatement, noBindVars, ErrEmpty)
            ELSE Returned(tokenizer.ParseTree, tokenizer.BindVars, "nil")
        call(p) == parsed(p.ret, p.tkn)
    IN  call(yyParsePooled(NewStringTokenizer(sql)))

Parse(sql) == LET drop(r) == [stmt |-> r.stmt, err |-> r.err] IN drop(Parse2(sql))

\* a variant that accepts the partially parsed DDL as Parse2 does
ParseStrictDDL_Partial(sql) == Parse(sql)

ParseStrictDDL(sql) ==
    LET parsed(ret, tokenizer) ==
            IF ret # 0 THEN [stmt |-> nilStatement, err |-> tokenizer.LastError.Err]
            ELSE IF tokenizer.ParseTree = nilStatement
            THEN [stmt |-> nilStatement, err |-> ErrEmpty]
            ELSE [stmt |-> tokenizer.ParseTree, err |-> "nil"]
        call(p) == parsed(p.ret, p.tkn)
    IN  call(yyParsePooled(NewStringTokenizer(sql)))

\* Tokenizer.reset
reset(t) ==
    [t EXCEPT !.ParseTree = nilStatement, !.partialDDL = nilStatement,
              !.specialComment = noSpecial]

\* parseNext; the tokenizer is given back with the result
RECURSIVE parseNext(_, _)
parseNext(t, strict) ==
    LET parsed(ret, tokenizer) ==
            IF ret # 0
            THEN IF tokenizer.partialDDL # nilStatement /\ ~strict
                 THEN [stmt |-> tokenizer.partialDDL, err |-> "nil",
                       tkn |-> [tokenizer EXCEPT !.ParseTree = tokenizer.partialDDL]]
                 ELSE [stmt |-> nilStatement, err |-> tokenizer.LastError.Err, tkn |-> tokenizer]
            ELSE IF tokenizer.ParseTree = nilStatement \/ tokenizer.ParseTree.kind = "CommentOnly"
            THEN parseNext(tokenizer, FALSE)
            ELSE [stmt |-> tokenizer.ParseTree, err |-> "nil", tkn |-> tokenizer]
        call(p) == parsed(p.ret, p.tkn)
        next(t1) ==
            IF cur(t1.buf, t1.Pos) = eofChar
            THEN [stmt |-> nilStatement, err |-> "EOF", tkn |-> t1]
            ELSE call(yyParsePooled([reset(t1) EXCEPT !.multi = TRUE]))
    IN  next(IF cur(t.buf, t.Pos) = ";"
             THEN [t EXCEPT !.Pos = skipBlank(t.buf, t.Pos + 1)]
             ELSE t)

ParseNext(tokenizer) == parseNext(tokenizer, FALSE)

ParseNextStrictDDL(tokenizer) == parseNext(tokenizer, TRUE)

\* the Go slice expression b[lo:hi], which panics when lo > hi or hi > len(b)
InBounds(b, lo, hi) == 0 <= lo /\ lo <= hi /\ hi <= Len(b)

Slice(b, lo, hi) == SubSeq(b, lo + 1, hi)

\* the loop of SplitStatement: scan up to a ';' or the end
RECURSIVE scanStatement(_)
scanStatement(t) ==
    LET token(r) == IF r.typ \in {"0", ";", eofChar} THEN r ELSE scanStatement(r.tkn)
    IN  token(Scan(t))

SplitStatement(b) ==
    LET scanned(typ, tokenizer) ==
            IF tokenizer.LastError # noError
            THEN [first |-> <<>>, rest |-> <<>>, err |-> tokenizer.LastError.Err, panic |-> FALSE]
            ELSE IF typ = ";"
            THEN IF InBounds(b, 0, tokenizer.Pos - 1) /\ InBounds(b, tokenizer.Pos, Len(b))
                 THEN [first |-> Slice(b, 0, tokenizer.Pos - 1),
                       rest |-> Slice(b, tokenizer.Pos, Len(b)),
                       err |-> "nil", panic |-> FALSE]
                 ELSE [first |-> <<>>, rest |-> <<>>, err |-> "nil", panic |-> TRUE]
            ELSE [first |-> b, rest |-> <<>>, err |-> "nil", panic |-> FALSE]
        loop(r) == scanned(r.typ, r.tkn)
    IN  loop(scanStatement(NewStringTokenizer(b)))

\* strings.IndexByte(b, ';'), counted from 0; -1 if there is none
RECURSIVE IndexByte(_, _)
IndexByte(b, from) ==
    IF from >= Len(b) THEN -1
    ELSE IF b[from + 1] = ";" THEN from
    ELSE IndexByte(b, from + 1)

Pieces(pieces, err) == [pieces |-> pieces, err |-> err, panic |-> FALSE]

PiecesPanic == [pieces |-> <<>>, err |-> "nil", panic |-> TRUE]

\* the loop of SplitStatementToPieces
RECURSIVE piecesLoop(_, _, _, _, _)
piecesLoop(tokenizer, b, pieces, stmtBegin, emptyStatement) ==
    LET token(r, Pos, blobTail) ==
            CASE r.typ = ";" ->
                    IF ~InBounds(b, stmtBegin, Pos - 1) THEN PiecesPanic
                    ELSE piecesLoop(r.tkn, b,
                                    IF ~emptyStatement
                                    THEN Append(pieces, Slice(b, stmtBegin, Pos - 1))
                                    ELSE pieces,
                                    Pos, TRUE)
              [] r.typ \in {"0", eofChar} ->
                    IF stmtBegin < blobTail /\ ~emptyStatement
                    THEN Pieces(Append(pieces, Slice(b, stmtBegin, blobTail + 1)),
                                r.tkn.LastError.Err)
                    ELSE Pieces(pieces, r.tkn.LastError.Err)
              [] OTHER -> piecesLoop(r.tkn, b, pieces, stmtBegin, FALSE)
        scanned(r) == token(r, r.tkn.Pos, r.tkn.Pos - 1)
    IN  scanned(Scan(tokenizer))

SplitStatementToPieces(b) ==
    IF b = <<>> THEN Pieces(<<>>, "nil")
    ELSE IF IndexByte(b, 0) = -1 THEN Pieces(<<b>>, "nil")
    ELSE IF IndexByte(b, 0) = Len(b) - 1 THEN Pieces(<<Slice(b, 0, Len(b) - 1)>>, "nil")
    ELSE piecesLoop(NewStringTokenizer(b), b, <<>>, 0, TRUE)

---------------------------------------------------------------------------
(* A caller of the parser: every entry point once on the text blob, then   *)
(* ParseNext, or ParseNextStrictDDL, again and again on one tokenizer.     *)

NotCalled == [called |-> FALSE]

NoResults ==
    [Parse2 |-> NotCalled, Parse |-> NotCalled, ParseStrictDDL |-> NotCalled,
     SplitStatement |-> NotCalled, SplitStatementToPieces |-> NotCalled]

InitParser ==
    /\ blob \in Blobs
    /\ ppc = "Parse2"
    /\ res = NoResults
    /\ tkn = NewStringTokenizer(blob)
    /\ nexts = <<>>
    /\ EvalIdle
    /\ TrackerIdle
    /\ ReloadIdle
    /\ PoolIdle
    /\ VersionIdle
    /\ MergeIdle
    /\ EnableIdle

\* one entry point called on blob; then the next one's turn
Called(name, r, then) ==
    /\ ppc = name
    /\ res' = [res EXCEPT ![name] = r]
    /\ ppc' = then
    /\ UNCHANGED <<blob, tkn, nexts>>
    /\ UNCHANGED <<evalVars, trackerVars, reloadVars, poolVars, versionVars, mergeVars, enableVars>>

CallParse2 == Called("Parse2", Parse2(blob), "Parse")

CallParse == Called("Parse", Parse(blob), "ParseStrictDDL")

CallParseStrictDDL == Called("ParseStrictDDL", ParseStrictDDL(blob), "SplitStatement")

CallSplitStatement == Called("SplitStatement", SplitStatement(blob), "SplitStatementToPieces")

CallSplitStatementToPieces ==
    Called("SplitStatementToPieces", SplitStatementToPieces(blob), "ParseNext")

\* one more call on the shared tokenizer; what it returned is recorded with
\* the tokenizer's position before and after
NextCalled(strict, r) ==
    /\ ppc = "ParseNext"
    /\ Len(nexts) < MaxCalls
    /\ nexts # <<>> => nexts[1].strict = strict
    /\ nexts' = Append(nexts, [stmt |-> r.stmt, err |-> r.err, strict |-> strict,
                               from |-> tkn.Pos, to |-> r.tkn.Pos])
    /\ tkn' = r.tkn
    /\ UNCHANGED <<blob, ppc, res>>
    /\ UNCHANGED <<evalVars, trackerVars, reloadVars, poolVars, versionVars, mergeVars, enableVars>>

CallParseNext == NextCalled(FALSE, ParseNext(tkn))

CallParseNextStrictDDL == NextCalled(TRUE, ParseNextStrictDDL(tkn))

NextParser ==
    \/ CallParse2
    \/ CallParse
    \/ CallParseStrictDDL
    \/ CallSplitStatement
    \/ CallSplitStatementToPieces
    \/ CallParseNext
    \/ CallParseNextStrictDDL

SpecParser == InitParser /\ [][NextParser]_vars

---------------------------------------------------------------------------
(* Properties of the parser's entry points, checked under SpecParser.      *)

IsPartialDDL(stmt) == stmt.kind = "DDL" /\ ~stmt.FullyParsed

\* the tokenizer after the parse of the whole text, and whether that parse
\* failed with a partially parsed DDL recorded
Parsed == yyParsePooled(NewStringTokenizer(blob))

PartialRecorded == Parsed.ret # 0 /\ Parsed.tkn.partialDDL # nilStatement

\* C12: a call of ParseNextStrictDDL never returns a partially parsed DDL
\* statement: when the statement it ends up parsing has a syntax error it
\* returns an error and no statement, also after empty or comment-only
\* statements skipped in the same call.
C12_StrictNeverPartial ==
    \A i \in 1..Len(nexts) :
        nexts[i].strict =>
            /\ ~IsPartialDDL(nexts[i].stmt)
            /\ nexts[i].err # "nil" => nexts[i].stmt = nilStatement

\* C13: when no partial DDL is recorded, ParseStrictDDL succeeds exactly when
\* Parse does, with the same statement, and fails whenever the tokenizer has
\* recorded an error; when one is recorded, ParseStrictDDL returns an error,
\* and whatever statement Parse returns is that partial DDL.
C13_StrictSameExceptPartial ==
    ppc \notin {"Parse2", "Parse", "ParseStrictDDL"} =>
        LET strict == res.ParseStrictDDL
            parse == res.Parse
        IN  /\ ~PartialRecorded =>
                  /\ (strict.err = "nil") <=> (parse.err = "nil")
                  /\ parse.err = "nil" => strict.stmt = parse.stmt
                  /\ Parsed.tkn.LastError # noError => strict.err # "nil"
            /\ PartialRecorded =>
                  /\ strict.err # "nil"
                  /\ strict.stmt = nilStatement
                  /\ parse.err = "nil" => IsPartialDDL(parse.stmt)

\* Parse returned the partially parsed DDL and ParseStrictDDL an error
C13_Witness ==
    /\ ppc = "SplitStatement"
    /\ PartialRecorded
    /\ res.Parse.err = "nil"
    /\ IsPartialDDL(res.Parse.stmt)
    /\ res.ParseStrictDDL.err = "syntax error"

C14_WitnessPartial ==
    /\ ppc # "Parse2"
    /\ blob = <<"c", "d", " ", "}">>
    /\ res.Parse2.err = "nil"
    /\ res.Parse2.stmt = DDL(FALSE, 1)

\* the statements of a text: the pieces between the semicolons that the
\* tokenizer meets outside a MySQL-specific comment
RECURSIVE Segments(_, _, _)
Segments(b, i, seg) ==
    IF i > Len(b) THEN <<seg>>
    ELSE IF b[i] = ";" THEN <<seg>> \o Segments(b, i + 1, <<>>)
    ELSE IF b[i] = "{"
    THEN LET close == FindClose(b, i + 1)
             last == IF close = 0 THEN Len(b) ELSE close
         IN  Segments(b, last + 1, seg \o SubSeq(b, i, last))
    ELSE Segments(b, i + 1, Append(seg, b[i]))

\* what the parser makes of each statement of a text that is not empty and
\* not only comments, in the order of the text
RECURSIVE Outcomes(_)
Outcomes(segs) ==
    IF segs = <<>> THEN <<>>
    ELSE LET r == ParseNext(NewStringTokenizer(Head(segs)))
         IN  IF r.err = "EOF" THEN Outcomes(Tail(segs))
             ELSE <<[stmt |-> r.stmt, err |-> r.err]>> \o Outcomes(Tail(segs))

\* what the calls so far returned, without the io.EOF returns
RECURSIVE Returns(_)
Returns(calls) ==
    IF calls = <<>> THEN <<>>
    ELSE IF Head(calls).err = "EOF" THEN Returns(Tail(calls))
    ELSE <<[stmt |-> Head(calls).stmt, err |-> Head(calls).err]>> \o Returns(Tail(calls))

\* C15: repeated calls of ParseNext return the statements of the text one
\* per call in the order of the text, skipping empty and comment-only
\* statements; a call that returns a statement leaves the tokenizer at the
\* end of that statement; after the last statement the call returns io.EOF,
\* and so does every later call.
C15_OneStatementPerCall ==
    (nexts # <<>> /\ ~nexts[1].strict) =>
        LET want == Outcomes(Segments(blob, 1, <<>>))
            got == Returns(nexts)
        IN  /\ Len(got) <= Len(want)
            /\ \A i \in 1..Len(got) : got[i] = want[i]
            /\ \A i \in 1..Len(nexts) :
                  /\ nexts[i].err = "EOF" =>
                        /\ Len(Returns(SubSeq(nexts, 1, i))) = Len(want)
                        /\ \A j \in i..Len(nexts) : nexts[j].err = "EOF"
                  /\ nexts[i].stmt # nilStatement =>
                        cur(blob, nexts[i].to) \in {";", eofChar}

\* C19: SplitStatement: when the scan meets a ';' token, first, ";" and the
\* remainder make up the text again and first holds no ';' token; when it
\* meets none, first is the text and the remainder is empty; when the
\* tokenizer has recorded an error, both are empty and the error is returned.
C19_SplitIsTheText ==
    ppc \in {"SplitStatementToPieces", "ParseNext"} =>
        LET r == res.SplitStatement
            end == scanStatement(NewStringTokenizer(blob))
        IN  /\ ~r.panic
            /\ end.tkn.LastError # noError =>
                  (r.first = <<>> /\ r.rest = <<>> /\ r.err # "nil")
            /\ (end.tkn.LastError = noError /\ end.typ = ";") =>
                  /\ r.err = "nil"
                  /\ r.first \o <<";">> \o r.rest = blob
                  /\ scanStatement(NewStringTokenizer(r.first)).typ # ";"
            /\ (end.tkn.LastError = noError /\ end.typ # ";") =>
                  (r.err = "nil" /\ r.first = blob /\ r.rest = <<>>)

\* C20: for every text SplitStatementToPieces returns either pieces and a
\* nil error, or an error and no pieces.
C20_PiecesOrError ==
    ppc = "ParseNext" =>
        LET r == res.SplitStatementToPieces
        IN  /\ ~r.panic
            /\ r.err = "nil" \/ r.pieces = <<>>

---------------------------------------------------------------------------
(* MustReloadSchemaOnDDL on its own: a caller that asks it about some      *)
(* statements, one after the other.                                        *)

SqlTexts ==
    {"create table t1 (id int)",
     "alter table other.t1 add c int",
     "alter table main.t1 add c int",
     "rename table other.a to main.b",
     "rename table a to other.b",
     "rename table a to _vt_hld_6ace8bcef73211ea87e9f875a4d24e90_20200915120410_, c to d",
     "alter table _vt_hld_6ace8bcef73211ea87e9f875a4d24e90_20200915120410_ add c int",
     "alter table other._vt_hld_6ace8bcef73211ea87e9f875a4d24e90_20200915120410_ add c int",
     "create database d1",
     "select 1",
     "create table"}

DbNames == {"main", "other"}

InitReload ==
    /\ ddls \in [db : DbNames, todo : SeqsUpTo(SqlTexts, MaxDDLs)]
    /\ verdicts = <<>>
    /\ EvalIdle
    /\ TrackerIdle
    /\ ParserIdle
    /\ PoolIdle
    /\ VersionIdle
    /\ MergeIdle
    /\ EnableIdle

\* the caller asks about the next statement
Judge ==
    /\ ddls.todo # <<>>
    /\ LET sql == Head(ddls.todo)
       IN  verdicts' = Append(verdicts, [sql |-> sql, db |-> ddls.db,
                                         reload |-> MustReloadSchemaOnDDL(sql, ddls.db)])
    /\ ddls' = [ddls EXCEPT !.todo = Tail(@)]
    /\ UNCHANGED <<evalVars, trackerVars, parserVars, poolVars, versionVars, mergeVars, enableVars>>

NextReload == Judge

SpecReload == InitReload /\ [][NextReload]_vars

\* the tables a DDL statement names: its target table and its 'to' tables
TablesOf(ast) == {ast.table} \cup {ast.toTables[i] : i \in 1..Len(ast.toTables)}

\* C18: MustReloadSchemaOnDDL(sql, dbname) is true if and only if sql parses
\* to a table-level DDL statement with at least one table, among its target
\* table and its 'to' tables, whose name is not empty, whose qualifier is
\* empty or dbname, and whose name is not that of an online-DDL artifact; it
\* is false for SQL that does not parse and for every other statement.
C18_ReloadIffOwnTable ==
    \A i \in 1..Len(verdicts) :
        LET v == verdicts[i]
            ast == Parser_Parse(v.sql)
        IN  v.reload <=>
                /\ ~ast.err
                /\ ast.kind = "DDL"
                /\ \E t \in TablesOf(ast) :
                      /\ t.Name # ""
                      /\ t.Qualifier \in {"", v.db}
                      /\ ~IsOnlineDDLTableName(t.Name)

\* a rename whose first 'to' table is an online-DDL artifact and whose second
\* is a table of the database needs a reload; one into another database not
C18_Witness ==
    /\ Len(verdicts) = 2
    /\ verdicts[1].sql = "rename table a to _vt_hld_6ace8bcef73211ea87e9f875a4d24e90_20200915120410_, c to d"
    /\ verdicts[1].reload
    /\ verdicts[2].sql = "rename table a to other.b"
    /\ verdicts[2].db = "main"
    /\ ~verdicts[2].reload

---------------------------------------------------------------------------
(* parserPool and yyParsePooled under concurrent callers.  A parser object *)
(* is its fields: the parse stack and the lookahead.  sync.Pool hands out  *)
(* an object it holds, or a new one from New, and may drop what it holds.  *)

Goroutines == {"g1", "g2"}

Parsers == 1..MaxParsers

\* var zeroParser yyParserImpl
zeroParser == [stack |-> <<>>, char |-> "none"]

\* a parser object while and after Parse has run on it
usedParser == [stack |-> <<"any_command">>, char |-> "$end"]

noParser == 0

IdleCaller ==
    [pc |-> "idle", parser |-> noParser, saw |-> zeroParser, left |-> zeroParser,
     exit |-> "none", calls |-> 0, puts |-> 0]

InitPool ==
    /\ pool = [items |-> {}, objs |-> [o \in Parsers |-> zeroParser], allocated |-> 0]
    /\ callers = [g \in Goroutines |-> IdleCaller]
    /\ EvalIdle
    /\ TrackerIdle
    /\ ReloadIdle
    /\ ParserIdle
    /\ VersionIdle
    /\ MergeIdle
    /\ EnableIdle

\* a variant that hands out an object and leaves it in the pool
parserPool_Get_Shared(p) ==
    {[parser |-> o, pool |-> p] : o \in p.items}
    \cup (IF p.allocated < MaxParsers
          THEN {[parser |-> p.allocated + 1,
                 pool |-> [p EXCEPT !.allocated = @ + 1, !.items = @ \cup {p.allocated + 1},
                                    !.objs[p.allocated + 1] = zeroParser]]}
          ELSE {})

\* parserPool.Get(): an object of the pool, taken out of it, or a new
\* &yyParserImpl{} from New; gives every possible outcome
parserPool_Get(p) ==
    {[parser |-> o, pool |-> [p EXCEPT !.items = @ \ {o}]] : o \in p.items}
    \cup (IF p.allocated < MaxParsers
          THEN {[parser |-> p.allocated + 1,
                 pool |-> [p EXCEPT !.allocated = @ + 1, !.objs[p.allocated + 1] = zeroParser]]}
          ELSE {})

\* a variant that resets the object on a return only, not on a panic
deferredReset_NotOnPanic(parser, exit) == IF exit = "panic" THEN parser ELSE zeroParser

\* the deferred *parser = zeroParser, which runs on every exit
deferredReset(parser, exit) == zeroParser

\* yyParsePooled: parser := parserPool.Get().(*yyParserImpl)
GetParser(g) ==
    /\ callers[g].pc = "idle"
    /\ callers[g].calls < MaxParses
    /\ \E r \in parserPool_Get(pool) :
          /\ pool' = r.pool
          /\ callers' = [callers EXCEPT ![g] = [IdleCaller EXCEPT !.pc = "got", !.parser = r.parser,
                                                                 !.calls = callers[g].calls + 1]]
    /\ UNCHANGED <<evalVars, trackerVars, reloadVars, parserVars, versionVars, mergeVars, enableVars>>

\* parser.Parse(yylex) begins: it works on the fields of the object
ParseBegins(g) ==
    /\ callers[g].pc = "got"
    /\ callers' = [callers EXCEPT ![g].pc = "parsing", ![g].saw = pool.objs[callers[g].parser]]
    /\ pool' = [pool EXCEPT !.objs[callers[g].parser] = usedParser]
    /\ UNCHANGED <<evalVars, trackerVars, reloadVars, parserVars, versionVars, mergeVars, enableVars>>

\* parser.Parse(yylex) ends: it returns 0 or 1, or it panics
ParseEnds(g) ==
    /\ callers[g].pc = "parsing"
    /\ \E exit \in {"return 0", "return 1", "panic"} :
          callers' = [callers EXCEPT ![g].pc = "deferred", ![g].exit = exit]
    /\ UNCHANGED pool
    /\ UNCHANGED <<evalVars, trackerVars, reloadVars, parserVars, versionVars, mergeVars, enableVars>>

\* the deferred function: *parser = zeroParser; parserPool.Put(parser)
Deferred(g) ==
    /\ callers[g].pc = "deferred"
    /\ LET o == callers[g].parser
           z == deferredReset(pool.objs[o], callers[g].exit)
       IN  /\ pool' = [pool EXCEPT !.objs[o] = z, !.items = @ \cup {o}]
           /\ callers' = [callers EXCEPT ![g].pc = "idle", ![g].parser = noParser,
                                         ![g].left = z, ![g].puts = @ + 1]
    /\ UNCHANGED <<evalVars, trackerVars, reloadVars, parserVars, versionVars, mergeVars, enableVars>>

\* the garbage collector empties the pool of one object
PoolDrop ==
    /\ \E o \in pool.items : pool' = [pool EXCEPT !.items = @ \ {o}]
    /\ UNCHANGED callers
    /\ UNCHANGED <<evalVars, trackerVars, reloadVars, parserVars, versionVars, mergeVars, enableVars>>

NextPool ==
    \/ \E g \in Goroutines : GetParser(g)
    \/ \E g \in Goroutines : ParseBegins(g)
    \/ \E g \in Goroutines : ParseEnds(g)
    \/ \E g \in Goroutines : Deferred(g)
    \/ PoolDrop

SpecPool == InitPool /\ [][NextPool]_vars

---------------------------------------------------------------------------
(* Properties of the pool, checked under SpecPool.                         *)

Holding(g) == callers[g].pc \in {"got", "parsing", "deferred"}

\* C16: every parser object is zeroed before it goes back into the pool, on
\* a normal return, a parse failure and a panic alike; so every object the
\* pool holds is zero-valued, and no Parse has started on an object that
\* held what an earlier parse had left.
C16_PoolHoldsZeroedParsers ==
    /\ \A o \in pool.items : pool.objs[o] = zeroParser
    /\ \A g \in Goroutines :
          /\ callers[g].saw = zeroParser
          /\ callers[g].left = zeroParser

\* a parse panicked, its object went back zeroed, and the other goroutine
\* is parsing with that object, which it found zeroed
C16_Witness ==
    /\ callers["g1"].exit = "panic"
    /\ callers["g1"].pc = "idle"
    /\ callers["g1"].puts = 1
    /\ pool.allocated = 1
    /\ callers["g2"].pc = "parsing"
    /\ callers["g2"].parser = 1
    /\ callers["g2"].saw = zeroParser

\* C17: no parser object is in use by two calls at the same time: from Get
\* to Put the object is with one caller only and not in the pool, and each
\* call has put its object back exactly once when it ends.
C17_ExclusiveUse ==
    /\ \A g, h \in Goroutines :
          (g # h /\ Holding(g) /\ Holding(h)) => callers[g].parser # callers[h].parser
    /\ \A g \in Goroutines :
          IF Holding(g)
          THEN /\ callers[g].parser \notin pool.items
               /\ callers[g].parser \in 1..pool.allocated
               /\ callers[g].puts = 0
          ELSE callers[g].puts = (IF callers[g].calls > 0 THEN 1 ELSE 0)

\* both goroutines are parsing, each with an object of its own, after the
\* first one's earlier call had put its object back
C17_Witness ==
    /\ callers["g1"].pc = "parsing"
    /\ callers["g2"].pc = "parsing"
    /\ callers["g1"].calls = 2
    /\ callers["g1"].parser # callers["g2"].parser

---------------------------------------------------------------------------
(* ConvertMySQLVersionToCommentVersion.  A string is the sequence of its   *)
(* characters.                                                             *)

VersionChars == {"0", "9", ".", "-"}

Versions == SeqsUpTo(VersionChars, MaxVersion)

Digits == <<"0", "1", "2", "3", "4", "5", "6", "7", "8", "9">>

\* c <= '9' && c >= '0'
IsDigit(c) == \E d \in 1..Len(Digits) : Digits[d] = c

DigitValue(c) == (CHOOSE d \in 1..Len(Digits) : Digits[d] = c) - 1

RECURSIVE atoiDigits(_, _)
atoiDigits(val, acc) ==
    IF val = <<>> THEN acc ELSE atoiDigits(Tail(val), acc * 10 + DigitValue(Head(val)))

\* strconv.Atoi on a string of digits: the empty string is a syntax error
Atoi(val) ==
    IF val = <<>> THEN [v |-> 0, err |-> "invalid syntax"]
    ELSE [v |-> atoiDigits(val, 0), err |-> "nil"]

\* %d
RECURSIVE itoa(_)
itoa(n) == IF n < 10 THEN <<Digits[n + 1]>> ELSE Append(itoa(n \div 10), Digits[(n % 10) + 1])

\* %0wd
RECURSIVE pad0(_, _)
pad0(d, w) == IF Len(d) >= w THEN d ELSE pad0(<<"0">> \o d, w)

\* a variant that prints the three numbers without padding
Sprintf_NoPad(r) == itoa(r[1]) \o itoa(r[2]) \o itoa(r[3])

\* fmt.Sprintf("%01d%02d%02d", res[0], res[1], res[2])
Sprintf(r) == pad0(itoa(r[1]), 1) \o pad0(itoa(r[2]), 2) \o pad0(itoa(r[3]), 2)

\* the loop over the characters of the version; r is res, counted from 1
RECURSIVE versionLoop(_, _, _, _, _)
versionLoop(ver, i, val, r, idx) ==
    LET dot(a) ==
            IF a.err # "nil" THEN [val |-> val, res |-> r, idx |-> idx, err |-> a.err]
            ELSE IF idx + 1 = 3
            THEN [val |-> <<>>, res |-> [r EXCEPT ![idx + 1] = a.v], idx |-> idx + 1, err |-> "nil"]
            ELSE versionLoop(ver, i + 1, <<>>, [r EXCEPT ![idx + 1] = a.v], idx + 1)
    IN  IF i > Len(ver) THEN [val |-> val, res |-> r, idx |-> idx, err |-> "nil"]
        ELSE IF IsDigit(ver[i]) THEN versionLoop(ver, i + 1, Append(val, ver[i]), r, idx)
        ELSE IF ver[i] = "." THEN dot(Atoi(val))
        ELSE [val |-> val, res |-> r, idx |-> idx, err |-> "nil"]

VersionResult(out, err) == [called |-> TRUE, out |-> out, err |-> err, panic |-> FALSE]

VersionPanic == [called |-> TRUE, out |-> <<>>, err |-> "nil", panic |-> TRUE]

ConvertMySQLVersionToCommentVersion(ver) ==
    LET ret(r, idx) ==
            IF idx = 0 THEN VersionResult(<<>>, "MySQL version not correctly setup")
            ELSE VersionResult(Sprintf(r), "nil")
        last(l, a) ==
            IF l.val = <<>> THEN ret(l.res, l.idx)
            ELSE IF a.err # "nil" THEN VersionResult(<<>>, a.err)
            ELSE IF l.idx >= 3 THEN VersionPanic
            ELSE ret([l.res EXCEPT ![l.idx + 1] = a.v], l.idx + 1)
        after(l) ==
            IF l.err # "nil" THEN VersionResult(<<>>, l.err) ELSE last(l, Atoi(l.val))
    IN  after(versionLoop(ver, 1, <<>>, <<0, 0, 0>>, 0))

InitVersion ==
    /\ version \in Versions
    /\ converted = [called |-> FALSE]
    /\ EvalIdle
    /\ TrackerIdle
    /\ ReloadIdle
    /\ ParserIdle
    /\ PoolIdle
    /\ MergeIdle
    /\ EnableIdle

Convert ==
    /\ ~converted.called
    /\ converted' = ConvertMySQLVersionToCommentVersion(version)
    /\ UNCHANGED version
    /\ UNCHANGED <<evalVars, trackerVars, reloadVars, parserVars, poolVars, mergeVars, enableVars>>

NextVersion == Convert

SpecVersion == InitVersion /\ [][NextVersion]_vars

---------------------------------------------------------------------------
(* Properties of the version conversion, checked under SpecVersion.        *)

\* the longest prefix of s made of digits and dots
RECURSIVE Lead(_)
Lead(s) ==
    IF s = <<>> \/ ~(IsDigit(Head(s)) \/ Head(s) = ".") THEN <<>>
    ELSE <<Head(s)>> \o Lead(Tail(s))

\* the pieces of s between its dots: one more than it has dots
RECURSIVE Fields(_)
Fields(s) ==
    IF \A i \in 1..Len(s) : s[i] # "." THEN <<s>>
    ELSE LET d == CHOOSE i \in 1..Len(s) : s[i] = "." /\ \A j \in 1..(i - 1) : s[j] # "."
         IN  <<SubSeq(s, 1, d - 1)>> \o Fields(SubSeq(s, d + 1, Len(s)))

\* the number a string of digits denotes; 0 for the empty string
RECURSIVE Decimal(_)
Decimal(f) ==
    IF f = <<>> THEN 0 ELSE 10 * Decimal(SubSeq(f, 1, Len(f) - 1)) + DigitValue(f[Len(f)])

\* the decimal string of n in five digits
FiveDigits(n) ==
    <<Digits[((n \div 10000) % 10) + 1], Digits[((n \div 1000) % 10) + 1],
      Digits[((n \div 100) % 10) + 1], Digits[((n \div 10) % 10) + 1], Digits[(n % 10) + 1]>>

\* component i of the version: missing components, and a fourth one, count as 0
Component(f, i) == IF i <= Len(f) THEN Decimal(f[i]) ELSE 0

\* the first component is empty, or one of the first three is empty in front of a dot
BadVersion(f) == f[1] = <<>> \/ \E i \in 1..3 : i < Len(f) /\ f[i] = <<>>

\* C21: a version that starts with one to three components major.minor.patch,
\* major in 0..9, minor and patch in 0..99, missing ones 0, gives the five
\* digits of major*10000 + minor*100 + patch, whatever follows; a version with
\* no leading digit or with an empty component in front of a dot gives an
\* error and the empty string.
C21_CommentVersion ==
    converted.called =>
        LET f == Fields(Lead(version))
        IN  /\ ~converted.panic
            /\ BadVersion(f) => (converted.err # "nil" /\ converted.out = <<>>)
            /\ (~BadVersion(f) /\ Component(f, 1) <= 9 /\ Component(f, 2) <= 99
                               /\ Component(f, 3) <= 99)
                  => /\ converted.err = "nil"
                     /\ converted.out = FiveDigits(Component(f, 1) * 10000
                                                   + Component(f, 2) * 100 + Component(f, 3))

\* 9.09.9 with a fourth component behind it gives 90909
C21_Witness ==
    /\ version = <<"9", ".", "0", "9", ".", "9", ".">>
    /\ converted.called
    /\ converted.out = <<"9", "0", "9", "0", "9">>

\* an empty second component in front of a dot gives the error
C21_WitnessError ==
    /\ version = <<"9", ".", ".", "9">>
    /\ converted.called
    /\ converted.err = "invalid syntax"

---------------------------------------------------------------------------
(* Further properties of CollateExpr and IntroducerExpr, checked under     *)
(* Spec.                                                                   *)

OwnInstructions == {"NullCheck1", "Collate", "Convert_xc", "Introduce"}

\* C22: when the inner expression fails to evaluate, eval of a CollateExpr
\* and of an IntroducerExpr returns that error and no value, also through a
\* second CollateExpr above the first; when the inner expression fails to
\* compile, compile returns that error and has emitted no instruction of its
\* own.
C22_ErrorsPropagate ==
    /\ (Evaluated /\ inner.k = "fails") => evalOut = Error(inner.err)
    /\ (nestOut # NotRun /\ evalOut.kind = "error") => nestOut = evalOut
    /\ (compOut.done /\ ctInner.Type = "fails") =>
          /\ compOut.err = ctInner.err
          /\ compOut.ct = NoCtype
          /\ \A i \in 1..Len(compOut.code) : compOut.code[i].op \notin OwnInstructions

\* an Introducer whose inner expression fails both ways has returned the
\* error from eval and from compile
C22_Witness ==
    /\ node.kind = "Introducer"
    /\ inner = InnerFails("DataOutOfRange")
    /\ ctInner = CompileFails("DataOutOfRange")
    /\ evalOut = Error("DataOutOfRange")
    /\ compOut.done
    /\ compOut.err = "DataOutOfRange"

\* a CollateExpr above a CollateExpr whose inner expression fails
C22_WitnessNested ==
    /\ node.kind = "Collate"
    /\ inner = InnerFails("Unsupported")
    /\ nestOut = Error("Unsupported")

\* positions of the code at which one of the given instructions stands
PositionsOf(code, ops) == {i \in 1..Len(code) : code[i].op \in ops}

C27_WitnessError ==
    /\ node.kind = "Collate"
    /\ compOut.done
    /\ compOut.err = "InvalidArgument"
    /\ Len(compOut.code) = 2

\* C28: an IntroducerExpr with a target other than binary over a value that
\* is not a byte string (a number) gives a value whose bytes are the raw
\* bytes of the number with the padding rule applied.
C28_IntroducerRawBytes ==
    (node.kind = "Introducer" /\ Evaluated /\ target.Collation # CollationBinaryID
        /\ inner # NULL /\ inner.k # "fails" /\ ~IsBytes(inner)) =>
        /\ evalOut.kind = "value"
        /\ evalOut.val.bytes = padBytes(Charset(target.Collation), ToRawBytes(inner))

\* C29: CollateExpr.compile emits Collate when the compile-time type of the
\* inner expression is VarChar or VarBinary and Convert_xc to VarChar in the
\* target collation for every other type, one of the two and not both; the
\* descriptor returned is VarChar with the target TypedCollation and the
\* inner descriptor's flags plus ExplicitCollation and Nullable.
C29_CollateInstructionAndDescriptor ==
    (node.kind = "Collate" /\ compOut.done /\ compOut.err = "none") =>
        LET code == compOut.code
            collates == PositionsOf(code, {"Collate"})
            converts == PositionsOf(code, {"Convert_xc"})
        IN  /\ Cardinality(collates \cup converts) = 1
            /\ IF ctInner.Type \in {"VarChar", "VarBinary"}
               THEN /\ converts = {}
                    /\ \A i \in collates : code[i].col = target
               ELSE /\ collates = {}
                    /\ \A i \in converts : /\ code[i].tt = "VarChar"
                                           /\ code[i].col.Collation = target.Collation
            /\ compOut.ct.Type = "VarChar"
            /\ compOut.ct.Col = target
            /\ compOut.ct.Flag = ctInner.Flag \cup {flagExplicitCollation, flagNullable}

\* over a VarBinary inner expression the code has a Collate
C29_Witness ==
    /\ node.kind = "Collate"
    /\ ctInner.Type = "VarBinary"
    /\ compOut.done
    /\ compOut.err = "none"
    /\ compOut.code[3].op = "Collate"
    /\ compOut.ct.Type = "VarChar"
    /\ flagExplicitCollation \in compOut.ct.Flag

\* over a Blob inner expression the code has a Convert_xc
C29_WitnessConvert ==
    /\ node.kind = "Collate"
    /\ ctInner.Type = "Blob"
    /\ compOut.done
    /\ compOut.err = "none"
    /\ compOut.code[3].op = "Convert_xc"

---------------------------------------------------------------------------
(* The merge of two typed collations, by the rule of section 4.1 of the    *)
(* specification: the lower coercibility wins; on a tie the same collation *)
(* merges with itself, a Numeric or Ignorable side yields to the other     *)
(* side, and anything else is an error.                                    *)

\* Coercibility, from the strongest claim to the weakest
CoercibilityOrder ==
    <<"Explicit", "None", "Implicit", "SysConst", "Coercible", "Numeric", "Ignorable">>

Rank(c) == CHOOSE i \in 1..Len(CoercibilityOrder) : CoercibilityOrder[i] = c.Coercibility

collationNull ==
    [Collation |-> CollationBinaryID, Coercibility |-> "Ignorable", Repertoire |-> "ASCII"]

MergeCollationIDs == {"binary", "utf8mb4_bin", "utf8mb4_general_ci"}

MergeOperands ==
    [Collation : MergeCollationIDs, Coercibility : Coercibilities, Repertoire : Repertoires]

Merged(col) == [err |-> "none", col |-> col, left |-> "", right |-> ""]

\* InvalidArgument, naming both collations
IllegalMix(a, b) ==
    [err |-> "InvalidArgument", col |-> collationNull, left |-> a.Collation, right |-> b.Collation]

NotMerged == [err |-> "notrun", col |-> collationNull, left |-> "", right |-> ""]

IsNumericOrIgnorable(c) == c.Coercibility \in {"Numeric", "Ignorable"}

\* the repertoire of a collation merged with itself covers both sides
SameCollation(a, b) ==
    [a EXCEPT !.Repertoire = IF "Unicode" \in {a.Repertoire, b.Repertoire}
                             THEN "Unicode" ELSE "ASCII"]

\* a variant in which the higher coercibility wins
merge_HigherWins(a, b) ==
    IF Rank(a) > Rank(b) THEN Merged(a)
    ELSE IF Rank(b) > Rank(a) THEN Merged(b)
    ELSE IF a.Collation = b.Collation THEN Merged(SameCollation(a, b))
    ELSE IF IsNumericOrIgnorable(a) THEN Merged(b)
    ELSE IF IsNumericOrIgnorable(b) THEN Merged(a)
    ELSE IllegalMix(a, b)

merge(a, b) ==
    IF Rank(a) < Rank(b) THEN Merged(a)
    ELSE IF Rank(b) < Rank(a) THEN Merged(b)
    ELSE IF a.Collation = b.Collation THEN Merged(SameCollation(a, b))
    ELSE IF IsNumericOrIgnorable(a) THEN Merged(b)
    ELSE IF IsNumericOrIgnorable(b) THEN Merged(a)
    ELSE IllegalMix(a, b)

\* merge(merge(a, b), c); the error of the first merge if it fails
mergeThen(ab, c) == IF ab.err # "none" THEN ab ELSE merge(ab.col, c)

InitMerge ==
    /\ operands \in [A : MergeOperands, B : MergeOperands, C : MergeOperands]
    /\ merged = [ab |-> NotMerged, ba |-> NotMerged, ab_c |-> NotMerged, bc_a |-> NotMerged,
                 bc |-> NotMerged]
    /\ EvalIdle
    /\ TrackerIdle
    /\ ReloadIdle
    /\ ParserIdle
    /\ PoolIdle
    /\ VersionIdle
    /\ EnableIdle

\* the first two operands are merged, in both orders
MergeTwo ==
    /\ merged.ab = NotMerged
    /\ merged' = [merged EXCEPT !.ab = merge(operands.A, operands.B),
                                !.ba = merge(operands.B, operands.A)]
    /\ UNCHANGED operands
    /\ UNCHANGED <<evalVars, trackerVars, reloadVars, parserVars, poolVars, versionVars, enableVars>>

\* the three operands are merged: (A, B) then C, and (B, C) then A
MergeThree ==
    /\ merged.ab # NotMerged
    /\ merged.bc = NotMerged
    /\ merged' = [merged EXCEPT !.bc = merge(operands.B, operands.C),
                                !.ab_c = mergeThen(merged.ab, operands.C),
                                !.bc_a = mergeThen(merge(operands.B, operands.C), operands.A)]
    /\ UNCHANGED operands
    /\ UNCHANGED <<evalVars, trackerVars, reloadVars, parserVars, poolVars, versionVars, enableVars>>

NextMerge ==
    \/ MergeTwo
    \/ MergeThree

SpecMerge == InitMerge /\ [][NextMerge]_vars

---------------------------------------------------------------------------
(* Properties of the collation merge, checked under SpecMerge.             *)

Lower(a, b) ==
    \E i, j \in 1..Len(CoercibilityOrder) :
        i < j /\ CoercibilityOrder[i] = a.Coercibility /\ CoercibilityOrder[j] = b.Coercibility

\* C23: of two typed collations the one with the lower coercibility wins;
\* with equal coercibility and equal collation ID the merge is that
\* collation; with equal coercibility, different IDs and neither side Numeric
\* nor Ignorable the merge fails with InvalidArgument naming both; so two
\* different collations that are both Explicit do not merge.
C23_MergeRule ==
    merged.ab # NotMerged =>
        LET a == operands.A
            b == operands.B
            tie == a.Coercibility = b.Coercibility
        IN  /\ Lower(a, b) => merged.ab = Merged(a)
            /\ Lower(b, a) => merged.ab = Merged(b)
            /\ (tie /\ a.Collation = b.Collation) =>
                  /\ merged.ab.err = "none"
                  /\ merged.ab.col.Collation = a.Collation
                  /\ merged.ab.col.Coercibility = a.Coercibility
            /\ (tie /\ a.Collation # b.Collation
                    /\ a.Coercibility \notin {"Numeric", "Ignorable"}) =>
                  /\ merged.ab.err = "InvalidArgument"
                  /\ {merged.ab.left, merged.ab.right} = {a.Collation, b.Collation}
            /\ (a.Coercibility = "Explicit" /\ b.Coercibility = "Explicit"
                    /\ a.Collation # b.Collation) => merged.ab.err = "InvalidArgument"

\* two different Explicit collations did not merge
C23_Witness ==
    /\ operands.A = [Collation |-> "utf8mb4_bin", Coercibility |-> "Explicit", Repertoire |-> "Unicode"]
    /\ operands.B = [Collation |-> "utf8mb4_general_ci", Coercibility |-> "Explicit",
                     Repertoire |-> "Unicode"]
    /\ merged.ab.err = "InvalidArgument"
    /\ merged.ab.left = "utf8mb4_bin"
    /\ merged.ab.right = "utf8mb4_general_ci"

\* an Implicit collation won over a Coercible one
C23_WitnessLower ==
    /\ operands.A.Coercibility = "Coercible"
    /\ operands.B.Coercibility = "Implicit"
    /\ operands.A.Collation # operands.B.Collation
    /\ merged.ab = Merged(operands.B)

EnableCallers == {"e1", "e2"}

InitEnable ==
    /\ tr \in [enabled : BOOLEAN, mu : {"free"}, cancel : {FALSE}, wg : {0}, ctxDone : {FALSE}]
    /\ table \in {<<>>, <<schemaVersionRow("MySQL56/u:1-4", "create table t0 (id int)", 5)>>}
    /\ proc = ProcNone(table)
    /\ delivered = <<>>
    /\ saved = <<>>
    /\ enabling = [g \in EnableCallers |-> [pc |-> "idle", enabled |-> FALSE, calls |-> 0]]
    /\ EvalIdle
    /\ ReloadIdle
    /\ ParserIdle
    /\ PoolIdle
    /\ VersionIdle
    /\ MergeIdle

\* Tracker.Enable up to its call of Open or Close: tr.enabled is set with
\* tr.mu held
EnableSet(g, enabled) ==
    /\ enabling[g].pc = "idle"
    /\ enabling[g].calls < MaxEnables
    /\ tr.mu = "free"
    /\ tr' = [tr EXCEPT !.enabled = enabled]
    /\ enabling' = [enabling EXCEPT ![g] = [pc |-> IF enabled THEN "Open" ELSE "Close",
                                            enabled |-> enabled, calls |-> @.calls + 1]]
    /\ UNCHANGED <<proc, table, delivered, saved>>
    /\ UNCHANGED <<evalVars, reloadVars, parserVars, poolVars, versionVars, mergeVars>>

\* Tracker.Open, the test of tr.enabled: tr.mu is not held
OpenEnabled(g) ==
    /\ enabling[g].pc = "Open"
    /\ enabling' = [enabling EXCEPT ![g].pc = IF tr.enabled THEN "OpenLock" ELSE "idle"]
    /\ UNCHANGED trackerVars
    /\ UNCHANGED <<evalVars, reloadVars, parserVars, poolVars, versionVars, mergeVars>>

\* Tracker.Open from tr.mu.Lock() on
OpenLocked(g) ==
    /\ enabling[g].pc = "OpenLock"
    /\ tr.mu = "free"
    /\ IF tr.cancel
       THEN UNCHANGED <<tr, proc>>
       ELSE /\ tr' = [tr EXCEPT !.cancel = TRUE, !.ctxDone = FALSE, !.wg = 1]
            /\ proc' = [ProcNone(proc.base) EXCEPT !.pc = "init"]
    /\ enabling' = [enabling EXCEPT ![g].pc = "idle"]
    /\ UNCHANGED <<table, delivered, saved>>
    /\ UNCHANGED <<evalVars, reloadVars, parserVars, poolVars, versionVars, mergeVars>>

\* Tracker.Close up to tr.wg.Wait(), with tr.mu held
CloseCancelled(g) ==
    /\ enabling[g].pc = "Close"
    /\ tr.mu = "free"
    /\ IF tr.cancel
       THEN /\ tr' = [tr EXCEPT !.mu = "Close", !.ctxDone = TRUE, !.cancel = FALSE]
            /\ enabling' = [enabling EXCEPT ![g].pc = "Wait"]
       ELSE /\ UNCHANGED tr
            /\ enabling' = [enabling EXCEPT ![g].pc = "idle"]
    /\ UNCHANGED <<proc, table, delivered, saved>>
    /\ UNCHANGED <<evalVars, reloadVars, parserVars, poolVars, versionVars, mergeVars>>

\* Tracker.Close from the return of tr.wg.Wait()
CloseReturns(g) ==
    /\ enabling[g].pc = "Wait"
    /\ tr.wg = 0
    /\ tr' = [tr EXCEPT !.mu = "free"]
    /\ enabling' = [enabling EXCEPT ![g].pc = "idle"]
    /\ UNCHANGED <<proc, table, delivered, saved>>
    /\ UNCHANGED <<evalVars, reloadVars, parserVars, poolVars, versionVars, mergeVars>>

NextEnable ==
    \/ \E g \in EnableCallers, enabled \in BOOLEAN : EnableSet(g, enabled)
    \/ \E g \in EnableCallers : OpenEnabled(g)
    \/ \E g \in EnableCallers : OpenLocked(g)
    \/ \E g \in EnableCallers : CloseCancelled(g)
    \/ \E g \in EnableCallers : CloseReturns(g)
    \/ ProcessStart
    \/ StreamCall
    \/ StreamReturns
    \/ SelectDone
    \/ SelectAfter
    \/ SleepEnds

SpecEnable == InitEnable /\ [][NextEnable]_vars

\* no call of Enable is in progress, and one was made
EnableQuiet ==
    /\ \A g \in EnableCallers : enabling[g].pc = "idle"
    /\ \E g \in EnableCallers : enabling[g].calls > 0

\* C25: once the concurrent calls of Enable have all returned, the tracker
\* is open exactly if tr.enabled is true, and the process goroutine does
\* not run while tr.enabled is false.
C25_EnableForcesTracking ==
    EnableQuiet =>
        /\ tr.cancel <=> tr.enabled
        /\ proc.pc # "none" => tr.enabled

=============================================================================
